---- MODULE Spec2Model ----
(***************************************************************************)
(* RepeatRom scheduling engine: the in-memory data layer                   *)
(* (src/src/data/data-layer-memory.ts) and the pure answer transition      *)
(* function (src/src/data/answer-processor.ts), for one course slot.       *)
(*                                                                         *)
(* Timestamps are milliseconds, as Date.now() gives them.  null is Null.   *)
(* random() is a draw k/RandDen with k in 0..RandDen-1.                    *)
(***************************************************************************)
EXTENDS Integers, Sequences, FiniteSets, TLC

VARIABLES
    questionStates,   \* InMemoryDatabase.questionStates of the course: seq of QuestionState, index = question_id
    courseStats,      \* InMemoryDatabase.courseStats entry of the course, or NoStats
    config,           \* InMemoryDatabase.config
    now,              \* Date.now()
    result,           \* what the caller holds: the last scheduling result
    nextLogId,        \* InMemoryDatabase.nextLogId
    lastCall,         \* the operation just executed, or in progress with its position, and what it saw at its start
    everHidden,       \* history: question ids hideQuestion has been called on (of the existing course)
    streak,           \* history of AnswerSpec: the snapshot it started from and the answers applied since
    logs,             \* InMemoryDatabase.logs: the entries of the course, oldest first
    interactions      \* InMemoryDatabase.interactions: the records of the course, oldest first

vars == <<questionStates, courseStats, config, now, result, nextLogId, lastCall,
          everHidden, streak, logs, interactions>>

----------------------------------------------------------------------------
(* Bounds *)

NumQ == 2              \* largest number of valid questions a createCourse call loads
MaxLogs == 7           \* operations run while the log ids they use stay within this many
RandDen == 4           \* resolution of the random source
MaxCount == 3          \* largest consecutive counter of the question an answer streak starts from
MaxThreshold == 3      \* largest promotion and demotion threshold of an answer streak
MaxStreak == 3         \* largest number of answers in an answer streak
MaxTicks == 1          \* minutes the clock moves between calls of the pure function
MaxInput == 3          \* longest questions array createCourse is given
MaxAnswers == 2        \* answers given in a study session
MaxSubmits == 3        \* answers submitted while the study screen is followed
NumCourses == 2        \* courses held by one database
MaxInteractions == 4   \* answers per question that a long session is followed for

----------------------------------------------------------------------------
(* Values *)

Null == -1
NoStats == [id |-> "none"]
Options == {"A", "B"}


Min(a, b) == IF a <= b THEN a ELSE b
Max(a, b) == IF a >= b THEN a ELSE b

\* { ...s, ...updates }
Merge(s, updates) ==
    [f \in (DOMAIN s) \cup (DOMAIN updates) |->
        IF f \in DOMAIN updates THEN updates[f] ELSE s[f]]

DEFAULT_CONFIG ==
    [ test_pool_target_size         |-> 40,
      snooze_incorrect_minutes      |-> 1,
      snooze_test_correct_minutes   |-> 5,
      snooze_learned_correct_hours  |-> 1,
      snooze_master_correct_days    |-> 2,
      pool_weight_test              |-> 12,
      pool_weight_learned           |-> 4,
      pool_weight_master            |-> 1,
      pool_penalty_threshold        |-> 8,
      strategy_oldest_pct           |-> 30,
      strategy_demoted_pct          |-> 30,
      promotion_consecutive_correct |-> 2,
      demotion_incorrect_count      |-> 1 ]

\* the QuestionState createCourse stores for question qid
InitialQuestionState(qid) ==
    [ question_id           |-> qid,
      pool                  |-> "latent",
      last_shown            |-> Null,
      snooze_until          |-> Null,
      hidden                |-> FALSE,
      notes                 |-> "",
      consecutive_correct   |-> 0,
      consecutive_incorrect |-> 0,
      total_interactions    |-> 0,
      was_demoted           |-> FALSE ]

\* the OriginalQuestion createCourse stores for question qid (content beyond the correct option is not modelled)
OriginalQuestion(qid) == [ id |-> qid, correct_option |-> "A" ]

----------------------------------------------------------------------------
(* DataLayer static helpers *)

hoursToMinutes(hours) == hours * 60

daysToMinutes(days) == days * 24 * 60

\* faulty variant: the clock is read instead of the time passed in
calculateSnoozeUntilFromClock(currentTime, durationMinutes) ==
    now + durationMinutes * 60 * 1000

\* faulty variant: the duration is taken as seconds
calculateSnoozeUntilSeconds(currentTime, durationMinutes) ==
    currentTime + durationMinutes * 1000

calculateSnoozeUntil(currentTime, durationMinutes) ==
    currentTime + durationMinutes * 60 * 1000

validationOk == [ valid |-> TRUE, error |-> "" ]

validationError(reason) == [ valid |-> FALSE, error |-> reason ]

\* String.prototype.trim on the strings of the model, of which " " is the blank one
Trim(v) == IF v = " " THEN "" ELSE v

Range(seq) == { seq[i] : i \in DOMAIN seq }

\* faulty variant of validateQuestion: one option is enough
validateQuestionAcceptingOneOption(question) ==
    IF question.t # "object"
    THEN validationError("Question must be an object")
    ELSE IF question.question.t # "string" \/ Trim(question.question.v) = ""
    THEN validationError("Missing or invalid 'question' field")
    ELSE IF question.options.t # "array" \/ Len(question.options.v) < 1
    THEN validationError("Options must be an array with at least 2 items")
    ELSE IF Cardinality(Range(question.options.v)) # Len(question.options.v)
    THEN validationError("Options must not contain duplicates")
    ELSE IF question.correct_option.t # "string"
    THEN validationError("Missing or invalid 'correct_option' field")
    ELSE IF question.explanation.t # "string"
    THEN validationError("Missing or invalid 'explanation' field")
    ELSE IF question.correct_option.v \notin Range(question.options.v)
    THEN validationError("correct_option must match one of the options exactly")
    ELSE validationOk

\* validateQuestion(question); a value is [t |-> its typeof or "array", v |-> its content]
validateQuestion(question) ==
    IF question.t # "object"
    THEN validationError("Question must be an object")
    ELSE IF question.question.t # "string" \/ Trim(question.question.v) = ""
    THEN validationError("Missing or invalid 'question' field")
    ELSE IF question.options.t # "array" \/ Len(question.options.v) < 2
    THEN validationError("Options must be an array with at least 2 items")
    ELSE IF Cardinality(Range(question.options.v)) # Len(question.options.v)
    THEN validationError("Options must not contain duplicates")
    ELSE IF question.correct_option.t # "string"
    THEN validationError("Missing or invalid 'correct_option' field")
    ELSE IF question.explanation.t # "string"
    THEN validationError("Missing or invalid 'explanation' field")
    ELSE IF question.correct_option.v \notin Range(question.options.v)
    THEN validationError("correct_option must match one of the options exactly")
    ELSE validationOk

\* json.forEach of parseQuestionsJson over the first n items: the questions and errors pushed
RECURSIVE ParseItems(_, _)
ParseItems(items, n) ==
    IF n = 0 THEN [ questions |-> << >>, errors |-> << >> ]
    ELSE LET prev == ParseItems(items, n - 1)
             validation == validateQuestion(items[n])
         IN  IF validation.valid
             THEN [ prev EXCEPT !.questions = Append(@, items[n]) ]
             ELSE [ prev EXCEPT !.errors =
                      Append(@, [ index |-> n - 1, reason |-> validation.error ]) ]

\* faulty variant of parseQuestionsJson: every item that is an object is taken as a question
parseQuestionsJsonObjectsOnly(json) ==
    IF json.t # "array"
    THEN [ questions |-> << >>,
           errors |-> << [ index |-> 0, reason |-> "Input must be an array" ] >> ]
    ELSE [ questions |-> SelectSeq(json.v, LAMBDA item : item.t = "object"),
           errors |-> ParseItems(json.v, Len(json.v)).errors ]

parseQuestionsJson(json) ==
    IF json.t # "array"
    THEN [ questions |-> << >>,
           errors |-> << [ index |-> 0, reason |-> "Input must be an array" ] >> ]
    ELSE ParseItems(json.v, Len(json.v))

----------------------------------------------------------------------------
(* processAnswerPure *)

PromotionEvent(qid, from, to) ==
    [ type |-> "promotion", question_id |-> qid, from |-> from, to |-> to ]

DemotionEvent(qid, from, to) ==
    [ type |-> "demotion", question_id |-> qid, from |-> from, to |-> to ]

\* faulty variant of the correct branch: consecutive_correct is kept on the promotion out of Test
CorrectBranchKeepingCount(state, cfg) ==
    LET pool == state.pool
        cc   == state.consecutive_correct + 1
    IN  IF pool = "test"
        THEN IF cc >= cfg.promotion_consecutive_correct
             THEN << "learned", cc, 0, cfg.snooze_test_correct_minutes, TRUE, TRUE,
                     << PromotionEvent(state.question_id, "test", "learned") >> >>
             ELSE << pool, cc, 0, cfg.snooze_test_correct_minutes, FALSE, FALSE, << >> >>
        ELSE IF pool = "learned"
        THEN IF cc >= cfg.promotion_consecutive_correct
             THEN << "master", 0, 0, hoursToMinutes(cfg.snooze_learned_correct_hours), TRUE, FALSE,
                     << PromotionEvent(state.question_id, "learned", "master") >> >>
             ELSE << pool, cc, 0, hoursToMinutes(cfg.snooze_learned_correct_hours), FALSE, FALSE, << >> >>
        ELSE << pool, cc, 0, daysToMinutes(cfg.snooze_master_correct_days), FALSE, FALSE, << >> >>

\* faulty variant of the correct branch: the promotion out of Learned asks for a refill too
CorrectBranchRefillOnPromotion(state, cfg) ==
    LET pool == state.pool
        cc   == state.consecutive_correct + 1
    IN  IF pool = "test"
        THEN IF cc >= cfg.promotion_consecutive_correct
             THEN << "learned", 0, 0, cfg.snooze_test_correct_minutes, TRUE, TRUE,
                     << PromotionEvent(state.question_id, "test", "learned") >> >>
             ELSE << pool, cc, 0, cfg.snooze_test_correct_minutes, FALSE, FALSE, << >> >>
        ELSE IF pool = "learned"
        THEN IF cc >= cfg.promotion_consecutive_correct
             THEN << "master", 0, 0, hoursToMinutes(cfg.snooze_learned_correct_hours), TRUE, TRUE,
                     << PromotionEvent(state.question_id, "learned", "master") >> >>
             ELSE << pool, cc, 0, hoursToMinutes(cfg.snooze_learned_correct_hours), FALSE, FALSE, << >> >>
        ELSE << pool, cc, 0, daysToMinutes(cfg.snooze_master_correct_days), FALSE, FALSE, << >> >>

\* faulty variant of the correct branch: the promotion out of Learned does not clear was_demoted
CorrectBranchKeepingDemoted(state, cfg) ==
    LET pool == state.pool
        cc   == state.consecutive_correct + 1
    IN  IF pool = "test"
        THEN IF cc >= cfg.promotion_consecutive_correct
             THEN << "learned", 0, 0, cfg.snooze_test_correct_minutes, TRUE, TRUE,
                     << PromotionEvent(state.question_id, "test", "learned") >> >>
             ELSE << pool, cc, 0, cfg.snooze_test_correct_minutes, FALSE, FALSE, << >> >>
        ELSE IF pool = "learned"
        THEN IF cc >= cfg.promotion_consecutive_correct
             THEN << "master", 0, 0, hoursToMinutes(cfg.snooze_learned_correct_hours), FALSE, FALSE,
                     << PromotionEvent(state.question_id, "learned", "master") >> >>
             ELSE << pool, cc, 0, hoursToMinutes(cfg.snooze_learned_correct_hours), FALSE, FALSE, << >> >>
        ELSE << pool, cc, 0, daysToMinutes(cfg.snooze_master_correct_days), FALSE, FALSE, << >> >>

\* faulty variant of the correct branch: the promotion out of Test goes straight to Master
CorrectBranchSkippingLearned(state, cfg) ==
    LET pool == state.pool
        cc   == state.consecutive_correct + 1
    IN  IF pool \in { "test", "learned" }
        THEN IF cc >= cfg.promotion_consecutive_correct
             THEN << "master", 0, 0, cfg.snooze_test_correct_minutes, TRUE, pool = "test",
                     << PromotionEvent(state.question_id, pool, "master") >> >>
             ELSE << pool, cc, 0, cfg.snooze_test_correct_minutes, FALSE, FALSE, << >> >>
        ELSE << pool, cc, 0, daysToMinutes(cfg.snooze_master_correct_days), FALSE, FALSE, << >> >>

\* faulty variant of the correct branch: below the threshold the count of correct answers
\* is not kept
CorrectBranchLosingCount(state, cfg) ==
    LET pool == state.pool
        cc   == state.consecutive_correct + 1
    IN  IF pool = "test"
        THEN IF cc >= cfg.promotion_consecutive_correct
             THEN << "learned", 0, 0, cfg.snooze_test_correct_minutes, TRUE, TRUE,
                     << PromotionEvent(state.question_id, "test", "learned") >> >>
             ELSE << pool, 0, 0, cfg.snooze_test_correct_minutes, FALSE, FALSE, << >> >>
        ELSE IF pool = "learned"
        THEN IF cc >= cfg.promotion_consecutive_correct
             THEN << "master", 0, 0, hoursToMinutes(cfg.snooze_learned_correct_hours), TRUE, FALSE,
                     << PromotionEvent(state.question_id, "learned", "master") >> >>
             ELSE << pool, 0, 0, hoursToMinutes(cfg.snooze_learned_correct_hours), FALSE, FALSE, << >> >>
        ELSE << pool, cc, 0, daysToMinutes(cfg.snooze_master_correct_days), FALSE, FALSE, << >> >>

\* the correct branch (lines 45-85): <<newPool, newConsecutiveCorrect, newConsecutiveIncorrect,
\*   snoozeDurationMinutes, wasDemotedReset, needsTestPoolRefill, events>>
CorrectBranch(state, cfg) ==
    LET pool == state.pool
        cc   == state.consecutive_correct + 1
    IN  IF pool = "test"
        THEN IF cc >= cfg.promotion_consecutive_correct
             THEN << "learned", 0, 0, cfg.snooze_test_correct_minutes, TRUE, TRUE,
                     << PromotionEvent(state.question_id, "test", "learned") >> >>
             ELSE << pool, cc, 0, cfg.snooze_test_correct_minutes, FALSE, FALSE, << >> >>
        ELSE IF pool = "learned"
        THEN IF cc >= cfg.promotion_consecutive_correct
             THEN << "master", 0, 0, hoursToMinutes(cfg.snooze_learned_correct_hours), TRUE, FALSE,
                     << PromotionEvent(state.question_id, "learned", "master") >> >>
             ELSE << pool, cc, 0, hoursToMinutes(cfg.snooze_learned_correct_hours), FALSE, FALSE, << >> >>
        ELSE << pool, cc, 0, daysToMinutes(cfg.snooze_master_correct_days), FALSE, FALSE, << >> >>

\* faulty variant of the incorrect branch: a Test question at the threshold is demoted to Latent
IncorrectBranchDemotingTest(state, cfg) ==
    LET pool == state.pool
        ci   == state.consecutive_incorrect + 1
    IN  IF pool = "master" /\ ci >= cfg.demotion_incorrect_count
        THEN << "learned", 0, 0, cfg.snooze_incorrect_minutes, FALSE, FALSE,
                << DemotionEvent(state.question_id, "master", "learned") >> >>
        ELSE IF pool = "learned" /\ ci >= cfg.demotion_incorrect_count
        THEN << "test", 0, 0, cfg.snooze_incorrect_minutes, FALSE, FALSE,
                << DemotionEvent(state.question_id, "learned", "test") >> >>
        ELSE IF pool = "test" /\ ci >= cfg.demotion_incorrect_count
        THEN << "latent", 0, 0, cfg.snooze_incorrect_minutes, FALSE, FALSE,
                << DemotionEvent(state.question_id, "test", "latent") >> >>
        ELSE << pool, 0, ci, cfg.snooze_incorrect_minutes, FALSE, FALSE, << >> >>

\* faulty variant of the incorrect branch: consecutive_incorrect is kept on a demotion
IncorrectBranchKeepingCount(state, cfg) ==
    LET pool == state.pool
        ci   == state.consecutive_incorrect + 1
    IN  IF pool = "master" /\ ci >= cfg.demotion_incorrect_count
        THEN << "learned", 0, ci, cfg.snooze_incorrect_minutes, FALSE, FALSE,
                << DemotionEvent(state.question_id, "master", "learned") >> >>
        ELSE IF pool = "learned" /\ ci >= cfg.demotion_incorrect_count
        THEN << "test", 0, ci, cfg.snooze_incorrect_minutes, FALSE, FALSE,
                << DemotionEvent(state.question_id, "learned", "test") >> >>
        ELSE << pool, 0, ci, cfg.snooze_incorrect_minutes, FALSE, FALSE, << >> >>

\* faulty variant of the incorrect branch: the demotion out of Learned emits no event
IncorrectBranchSilentDemotion(state, cfg) ==
    LET pool == state.pool
        ci   == state.consecutive_incorrect + 1
    IN  IF pool = "master" /\ ci >= cfg.demotion_incorrect_count
        THEN << "learned", 0, 0, cfg.snooze_incorrect_minutes, FALSE, FALSE,
                << DemotionEvent(state.question_id, "master", "learned") >> >>
        ELSE IF pool = "learned" /\ ci >= cfg.demotion_incorrect_count
        THEN << "test", 0, 0, cfg.snooze_incorrect_minutes, FALSE, FALSE, << >> >>
        ELSE << pool, 0, ci, cfg.snooze_incorrect_minutes, FALSE, FALSE, << >> >>

\* faulty variant of the incorrect branch: consecutive_correct is kept when the pool stays
IncorrectBranchKeepingCorrect(state, cfg) ==
    LET pool == state.pool
        ci   == state.consecutive_incorrect + 1
    IN  IF pool = "master" /\ ci >= cfg.demotion_incorrect_count
        THEN << "learned", 0, 0, cfg.snooze_incorrect_minutes, FALSE, FALSE,
                << DemotionEvent(state.question_id, "master", "learned") >> >>
        ELSE IF pool = "learned" /\ ci >= cfg.demotion_incorrect_count
        THEN << "test", 0, 0, cfg.snooze_incorrect_minutes, FALSE, FALSE,
                << DemotionEvent(state.question_id, "learned", "test") >> >>
        ELSE << pool, state.consecutive_correct, ci, cfg.snooze_incorrect_minutes, FALSE, FALSE,
                << >> >>

\* the incorrect branch (lines 86-119), same tuple
IncorrectBranch(state, cfg) ==
    LET pool == state.pool
        ci   == state.consecutive_incorrect + 1
    IN  IF pool = "master" /\ ci >= cfg.demotion_incorrect_count
        THEN << "learned", 0, 0, cfg.snooze_incorrect_minutes, FALSE, FALSE,
                << DemotionEvent(state.question_id, "master", "learned") >> >>
        ELSE IF pool = "learned" /\ ci >= cfg.demotion_incorrect_count
        THEN << "test", 0, 0, cfg.snooze_incorrect_minutes, FALSE, FALSE,
                << DemotionEvent(state.question_id, "learned", "test") >> >>
        ELSE << pool, 0, ci, cfg.snooze_incorrect_minutes, FALSE, FALSE, << >> >>

\* faulty variant: total_interactions counts only the answers that change the pool
processAnswerPureCountingPoolChanges(res, selectedAnswer, cfg, t) ==
    LET correct == (selectedAnswer = res.question.correct_option)
        state   == res.state
        pool    == state.pool
        b       == IF correct THEN CorrectBranch(state, cfg) ELSE IncorrectBranch(state, cfg)
        newPool == b[1]
        snoozeDurationMinutes == b[4]
        wasDemotedReset == b[5]
        snoozeUntil == calculateSnoozeUntil(t, snoozeDurationMinutes)
        wasDemoted  == (~correct) /\ newPool # pool /\ (pool = "master" \/ pool = "learned")
        base == [ pool                  |-> newPool,
                  last_shown            |-> t,
                  snooze_until          |-> snoozeUntil,
                  consecutive_correct   |-> b[2],
                  consecutive_incorrect |-> b[3],
                  total_interactions    |-> state.total_interactions
                                               + (IF newPool # pool THEN 1 ELSE 0) ]
        stateUpdates ==
            IF wasDemoted THEN Merge(base, [was_demoted |-> TRUE])
            ELSE IF wasDemotedReset THEN Merge(base, [was_demoted |-> FALSE])
            ELSE base
    IN  [ correct               |-> correct,
          newPool               |-> newPool,
          oldPool               |-> pool,
          snoozeUntil           |-> snoozeUntil,
          snoozeDurationMinutes |-> snoozeDurationMinutes,
          stateUpdates          |-> stateUpdates,
          needsTestPoolRefill   |-> b[6],
          events                |-> b[7] ]

\* faulty variant: every incorrect answer in Learned or Master sets was_demoted
processAnswerPureMarkingEveryMiss(res, selectedAnswer, cfg, t) ==
    LET correct == (selectedAnswer = res.question.correct_option)
        state   == res.state
        pool    == state.pool
        b       == IF correct THEN CorrectBranch(state, cfg) ELSE IncorrectBranch(state, cfg)
        newPool == b[1]
        snoozeDurationMinutes == b[4]
        wasDemotedReset == b[5]
        snoozeUntil == calculateSnoozeUntil(t, snoozeDurationMinutes)
        wasDemoted  == (~correct) /\ (pool = "master" \/ pool = "learned")
        base == [ pool                  |-> newPool,
                  last_shown            |-> t,
                  snooze_until          |-> snoozeUntil,
                  consecutive_correct   |-> b[2],
                  consecutive_incorrect |-> b[3],
                  total_interactions    |-> state.total_interactions + 1 ]
        stateUpdates ==
            IF wasDemoted THEN Merge(base, [was_demoted |-> TRUE])
            ELSE IF wasDemotedReset THEN Merge(base, [was_demoted |-> FALSE])
            ELSE base
    IN  [ correct               |-> correct,
          newPool               |-> newPool,
          oldPool               |-> pool,
          snoozeUntil           |-> snoozeUntil,
          snoozeDurationMinutes |-> snoozeDurationMinutes,
          stateUpdates          |-> stateUpdates,
          needsTestPoolRefill   |-> b[6],
          events                |-> b[7] ]

processAnswerPure(res, selectedAnswer, cfg, t) ==
    LET correct == (selectedAnswer = res.question.correct_option)
        state   == res.state
        pool    == state.pool
        b       == IF correct THEN CorrectBranch(state, cfg) ELSE IncorrectBranch(state, cfg)
        newPool == b[1]
        snoozeDurationMinutes == b[4]
        wasDemotedReset == b[5]
        snoozeUntil == calculateSnoozeUntil(t, snoozeDurationMinutes)
        wasDemoted  == (~correct) /\ newPool # pool /\ (pool = "master" \/ pool = "learned")
        base == [ pool                  |-> newPool,
                  last_shown            |-> t,
                  snooze_until          |-> snoozeUntil,
                  consecutive_correct   |-> b[2],
                  consecutive_incorrect |-> b[3],
                  total_interactions    |-> state.total_interactions + 1 ]
        stateUpdates ==
            IF wasDemoted THEN Merge(base, [was_demoted |-> TRUE])
            ELSE IF wasDemotedReset THEN Merge(base, [was_demoted |-> FALSE])
            ELSE base
    IN  [ correct               |-> correct,
          newPool               |-> newPool,
          oldPool               |-> pool,
          snoozeUntil           |-> snoozeUntil,
          snoozeDurationMinutes |-> snoozeDurationMinutes,
          stateUpdates          |-> stateUpdates,
          needsTestPoolRefill   |-> b[6],
          events                |-> b[7] ]

----------------------------------------------------------------------------
(* InMemoryDatabase: queries *)

CourseExists == courseStats # NoStats

\* listCourses(): the metadata and the stats of the course slot are one record here
listCourses == IF CourseExists THEN << courseStats >> ELSE << >>

getAllQuestions(qs, pool) == SelectSeq(qs, LAMBDA s : s.pool = pool)

\* faulty variant of the filter: the snooze test is left out
IsAvailableIgnoringSnooze(s, t) == ~s.hidden

\* faulty variant of the filter: the hidden test is left out
IsAvailableIgnoringHidden(s, t) == s.snooze_until = Null \/ s.snooze_until <= t

\* the filter of getAvailableQuestions (lines 439-444), without the pool test
IsAvailable(s, t) ==
    (~s.hidden) /\ (s.snooze_until = Null \/ s.snooze_until <= t)

getAvailableQuestions(qs, pool, t) ==
    SelectSeq(qs, LAMBDA s : s.pool = pool /\ IsAvailable(s, t))

\* faulty variant of the hidden filter: hidden states are kept
NotHiddenKeepingAll(seq) == seq

NotHidden(seq) == SelectSeq(seq, LAMBDA s : ~s.hidden)

----------------------------------------------------------------------------
(* InMemoryDatabase.refillTestPoolFromLatent *)

\* faulty variant of the refill size: every Latent question is promoted
ToPromoteAll(latentLen, target, actualTestCount) ==
    latentLen

\* faulty variant of the refill size: at most one question is promoted per call
ToPromoteOne(latentLen, target, actualTestCount) ==
    Min(1, Min(latentLen, target - actualTestCount))

\* how many questions the refill promotes (lines 530-533)
ToPromote(latentLen, target, actualTestCount) ==
    Min(latentLen, target - actualTestCount)

\* returns the new questionStates, the new courseStats and the number promoted
refillTestPoolFromLatent(qs, stats, cfg) ==
    LET actualTestCount == Len(NotHidden(getAllQuestions(qs, "test")))
        latentAvailable == NotHidden(getAllQuestions(qs, "latent"))
        toPromote == ToPromote(Len(latentAvailable), cfg.test_pool_target_size, actualTestCount)
        ids == { latentAvailable[i].question_id : i \in 1..toPromote }
    IN  IF actualTestCount >= cfg.test_pool_target_size
             \/ Len(latentAvailable) = 0
             \/ toPromote = 0
        THEN [ qs |-> qs, stats |-> stats, promoted |-> 0 ]
        ELSE [ qs |-> [ i \in DOMAIN qs |->
                          IF i \in ids THEN [ qs[i] EXCEPT !.pool = "test" ] ELSE qs[i] ],
               stats |-> IF stats # NoStats
                         THEN [ stats EXCEPT !.latent_count = @ - toPromote,
                                             !.test_count = @ + toPromote ]
                         ELSE stats,
               promoted |-> toPromote ]

----------------------------------------------------------------------------
(* InMemoryDatabase.findNextQuestion *)

\* faulty variant of the pool list: Latent is drawn from in the place of Test
SchedPoolsWithLatent == << "latent", "learned", "master" >>

SchedPools == << "test", "learned", "master" >>

BaseWeight(cfg, pool) ==
    IF pool = "test" THEN cfg.pool_weight_test
    ELSE IF pool = "learned" THEN cfg.pool_weight_learned
    ELSE cfg.pool_weight_master

\* weights are kept as integers: every weight is multiplied by WeightScale
WeightScale(threshold) == IF threshold > 0 THEN threshold ELSE 1

\* faulty variant of the weight: no penalty for a pool with few available questions
PoolWeightUnpenalised(base, n, threshold) == base * WeightScale(threshold)

\* baseWeights[pool] * penalty, times WeightScale(threshold)   (line 372, 376)
PoolWeight(base, n, threshold) ==
    IF n >= threshold THEN base * WeightScale(threshold) ELSE base * n

\* one entry per pool, before the empty ones are skipped
PoolEntry(qs, cfg, pool, t) ==
    LET avail == getAvailableQuestions(qs, pool, t)
    IN  [ pool |-> pool, available |-> avail,
          weight |-> PoolWeight(BaseWeight(cfg, pool), Len(avail), cfg.pool_penalty_threshold) ]

\* faulty variant of the pool list: pools of weight 0 are skipped as well
PoolDataPositiveWeight(qs, cfg, t) ==
    SelectSeq([ i \in 1..3 |-> PoolEntry(qs, cfg, SchedPools[i], t) ],
              LAMBDA e : Len(e.available) # 0 /\ e.weight > 0)

\* lines 369-378: the entries of the pools that have an available question
PoolData(qs, cfg, t) ==
    SelectSeq([ i \in 1..3 |-> PoolEntry(qs, cfg, SchedPools[i], t) ],
              LAMBDA e : Len(e.available) # 0)

RECURSIVE SumWeights(_, _)
SumWeights(poolData, n) ==
    IF n = 0 THEN 0 ELSE SumWeights(poolData, n - 1) + poolData[n].weight

\* faulty variant of the roulette: a pool is taken as soon as its cumulative weight reaches
\* the draw
ChoosePoolAtDraw(poolData, k) ==
    LET totalWeight == SumWeights(poolData, Len(poolData))
        hits == { i \in 1..Len(poolData) : k * totalWeight <= SumWeights(poolData, i) * RandDen }
    IN  IF hits = {} THEN poolData[1]
        ELSE poolData[CHOOSE i \in hits : \A j \in hits : i <= j]

\* lines 381-391: rand = (k / RandDen) * totalWeight; first entry with rand < cumulative, else poolData[0]
ChoosePool(poolData, k) ==
    LET totalWeight == SumWeights(poolData, Len(poolData))
        hits == { i \in 1..Len(poolData) : k * totalWeight < SumWeights(poolData, i) * RandDen }
    IN  IF hits = {} THEN poolData[1]
        ELSE poolData[CHOOSE i \in hits : \A j \in hits : i <= j]

\* (prev.last_shown ?? Infinity) < (curr.last_shown ?? Infinity)
ShownBefore(prev, curr) ==
    prev.last_shown # Null /\ (curr.last_shown = Null \/ prev.last_shown < curr.last_shown)

\* available.reduce((prev, curr) => ... ? prev : curr) over a non-empty list
RECURSIVE ReduceOldest(_, _)
ReduceOldest(available, n) ==
    IF n = 1 THEN available[1]
    ELSE LET prev == ReduceOldest(available, n - 1)
             curr == available[n]
         IN  IF ShownBefore(prev, curr) THEN prev ELSE curr

\* available[Math.floor(random() * available.length)]
RandomPick(available, k) == available[((k * Len(available)) \div RandDen) + 1]

\* faulty variant of the selection: a recovery draw that finds no demoted question picks at
\* random and still reports 'recovery'
SelectQuestionKeepingRecovery(available, cfg, k2, k3) ==
    LET demoted == SelectSeq(available, LAMBDA s : s.was_demoted)
    IN  IF k2 * 100 < cfg.strategy_oldest_pct * RandDen
        THEN [ strategy |-> "oldest", selected |-> ReduceOldest(available, Len(available)) ]
        ELSE IF k2 * 100 < (cfg.strategy_oldest_pct + cfg.strategy_demoted_pct) * RandDen
        THEN [ strategy |-> "recovery",
               selected |-> IF Len(demoted) > 0 THEN ReduceOldest(demoted, Len(demoted))
                            ELSE RandomPick(available, k3) ]
        ELSE [ strategy |-> "random", selected |-> RandomPick(available, k3) ]

\* lines 394-425: the strategy and the selected state, for strategy draw k2 and index draw k3
SelectQuestion(available, cfg, k2, k3) ==
    LET demoted == SelectSeq(available, LAMBDA s : s.was_demoted)
    IN  IF k2 * 100 < cfg.strategy_oldest_pct * RandDen
        THEN [ strategy |-> "oldest", selected |-> ReduceOldest(available, Len(available)) ]
        ELSE IF k2 * 100 < (cfg.strategy_oldest_pct + cfg.strategy_demoted_pct) * RandDen
                /\ Len(demoted) > 0
        THEN [ strategy |-> "recovery", selected |-> ReduceOldest(demoted, Len(demoted)) ]
        ELSE [ strategy |-> "random", selected |-> RandomPick(available, k3) ]

NullResult == [ kind |-> "null" ]
NoResult == [ kind |-> "none" ]

\* line 427-429: the result built from the selection
QuestionResult(sel) ==
    [ kind |-> "question",
      question |-> OriginalQuestion(sel.selected.question_id),
      state |-> sel.selected,
      strategy |-> sel.strategy ]

Draws == 0..(RandDen - 1)

\* the values findNextQuestion can return on the states left by the refill step, over the
\* draws of the random source: k1/RandDen for the pool, k2/RandDen for the strategy and
\* k3/RandDen for the random pick
findNextQuestionReturns(qs, cfg, t) ==
    LET poolData == PoolData(qs, cfg, t)
    IN  IF Len(poolData) = 0 THEN { NullResult }
        ELSE LET chosen == { ChoosePool(poolData, k1) : k1 \in Draws }
             IN  { QuestionResult(SelectQuestion(c.available, cfg, k2, k3)) :
                      c \in chosen, k2 \in Draws, k3 \in Draws }

----------------------------------------------------------------------------
(* InMemoryDatabase: writes *)

PoolCount(stats, pool) ==
    IF pool = "latent" THEN stats.latent_count
    ELSE IF pool = "test" THEN stats.test_count
    ELSE IF pool = "learned" THEN stats.learned_count
    ELSE stats.master_count

SetPoolCount(stats, pool, v) ==
    IF pool = "latent" THEN [ stats EXCEPT !.latent_count = v ]
    ELSE IF pool = "test" THEN [ stats EXCEPT !.test_count = v ]
    ELSE IF pool = "learned" THEN [ stats EXCEPT !.learned_count = v ]
    ELSE [ stats EXCEPT !.master_count = v ]

\* returns the new questionStates and courseStats
updateQuestionStateWithPoolTransition(qs, stats, questionId, updates, oldPool, newPool) ==
    [ qs |-> IF questionId \in DOMAIN qs
             THEN [ qs EXCEPT ![questionId] = Merge(@, updates) ]
             ELSE qs,
      stats |-> IF oldPool # newPool /\ stats # NoStats
                THEN LET dec == SetPoolCount(stats, oldPool, PoolCount(stats, oldPool) - 1)
                     IN  SetPoolCount(dec, newPool, PoolCount(dec, newPool) + 1)
                ELSE stats ]

NonHiddenIn(qs, pool) == Len(NotHidden(getAllQuestions(qs, pool)))

\* what lastCall records of a scheduling call: the course's existence and the
\* non-hidden Latent and Test counts at its start
Call(op) ==
    [ op |-> op, existed |-> CourseExists,
      latent0 |-> NonHiddenIn(questionStates, "latent"),
      test0 |-> NonHiddenIn(questionStates, "test") ]

\* what lastCall records of any other operation
Other == [ op |-> "other", existed |-> FALSE, latent0 |-> 0, test0 |-> 0 ]

NoStreak == [ start |-> [ pool |-> "none" ], log |-> << >> ]

----------------------------------------------------------------------------
(* Operations.  The caller holds a scheduling result only until its next      *)
(* operation; a null result stays while the NoQuestionsScreen counts down.    *)

Init ==
    /\ questionStates = << >>
    /\ courseStats = NoStats
    /\ config = DEFAULT_CONFIG
    /\ now = 0
    /\ result = NoResult
    /\ nextLogId = 1
    /\ lastCall = Other
    /\ everHidden = {}
    /\ streak = NoStreak
    /\ logs = << >>
    /\ interactions = << >>

\* the operation pushes n entries on the log
Logs(n) ==
    /\ nextLogId + n <= MaxLogs + 1
    /\ nextLogId' = nextLogId + n

\* an event of the course itself, and an event about one question
CourseEvent(type) == [ type |-> type, question_id |-> 0, from |-> "none", to |-> "none" ]

QuestionEvent(type, questionId) ==
    [ type |-> type, question_id |-> questionId, from |-> "none", to |-> "none" ]

\* the promotion events the refill pushes when it turns the states qs0 into qs1, by question id
RefillEvents(qs0, qs1) ==
    LET ids == SelectSeq([ i \in DOMAIN qs0 |-> i ],
                         LAMBDA i : qs0[i].pool = "latent" /\ qs1[i].pool = "test")
    IN  [ k \in DOMAIN ids |-> PromotionEvent(ids[k], "latent", "test") ]

\* a LogEntry: the event with the next id (timestamp and course_id are not modelled)
LogEntry(id, event) == Merge(event, [ id |-> id ])

\* this.logs after a push of each of the events in turn
Pushed(events) ==
    logs \o [ i \in DOMAIN events |-> LogEntry(nextLogId + i - 1, events[i]) ]

\* the Interaction recordInteraction pushes: of its fields the question and the correctness
\* are kept
Interaction(questionId, answer, correct, strategy, pool) ==
    [ question_id |-> questionId, correct |-> correct ]

\* what lastCall records of a createCourse call: whether it threw, and the stored states,
\* stats and log position at its start
CreateCall(failed) ==
    Merge(Call("createCourse"),
          [ failed |-> failed, before |-> << questionStates, courseStats, nextLogId >> ])

\* faulty variant of the duplicate-name failure: the log entry is pushed before the name check
CreateCourseDuplicateNameLate ==
    /\ CourseExists
    /\ Logs(1)
    /\ logs' = Pushed(<< CourseEvent("course_created") >>)
    /\ result' = NoResult
    /\ lastCall' = CreateCall(TRUE)
    /\ UNCHANGED << questionStates, courseStats, config, now, everHidden, streak, interactions >>

\* createCourse with the name of the existing course: the name check throws (lines 74-79)
CreateCourseDuplicateName ==
    /\ CourseExists
    /\ result' = NoResult
    /\ lastCall' = CreateCall(TRUE)
    /\ UNCHANGED << questionStates, courseStats, config, now, nextLogId, everHidden, streak,
                    logs, interactions >>

\* createCourse with n valid questions; the course slot is free
CreateCourse(n) ==
    /\ ~CourseExists
    /\ questionStates' = [ i \in 1..n |-> InitialQuestionState(i) ]
    /\ courseStats' = [ id |-> "course", question_count |-> n, latent_count |-> n,
                        test_count |-> 0, learned_count |-> 0, master_count |-> 0 ]
    /\ Logs(1)
    /\ logs' = Pushed(<< CourseEvent("course_created") >>)
    /\ result' = NoResult
    /\ lastCall' = CreateCall(FALSE)
    /\ UNCHANGED << config, now, everHidden, streak, interactions >>

\* what lastCall records of a deleteCourse call: whether the course had an answered question
DeleteCall == Merge(Call("deleteCourse"), [ answered |-> interactions # << >> ])

\* faulty variant of deleteCourse: the log entries and the interactions of the course stay
DeleteCourseKeepingRecords ==
    /\ CourseExists
    /\ questionStates' = << >>
    /\ courseStats' = NoStats
    /\ result' = NoResult
    /\ everHidden' = {}
    /\ lastCall' = DeleteCall
    /\ UNCHANGED << config, now, nextLogId, streak, logs, interactions >>

\* deleteCourse
DeleteCourse ==
    /\ CourseExists
    /\ questionStates' = << >>
    /\ courseStats' = NoStats
    /\ result' = NoResult
    /\ everHidden' = {}
    /\ logs' = << >>
    /\ interactions' = << >>
    /\ lastCall' = DeleteCall
    /\ UNCHANGED << config, now, nextLogId, streak >>

\* faulty variant of the reset of a state: last_shown is kept
ResetStateKeepingShown(s) ==
    [ s EXCEPT !.pool = "latent", !.snooze_until = Null,
               !.hidden = FALSE, !.notes = "", !.consecutive_correct = 0,
               !.consecutive_incorrect = 0,
               !.total_interactions = 0, !.was_demoted = FALSE ]

\* faulty variant of the reset of a state: the notes and the hidden flag are kept
ResetStateKeepingNotes(s) ==
    [ s EXCEPT !.pool = "latent", !.last_shown = Null, !.snooze_until = Null,
               !.consecutive_correct = 0, !.consecutive_incorrect = 0,
               !.total_interactions = 0, !.was_demoted = FALSE ]

\* the state resetCourse writes over s (lines 189-197)
ResetState(s) ==
    [ s EXCEPT !.pool = "latent", !.last_shown = Null, !.snooze_until = Null,
               !.hidden = FALSE, !.notes = "", !.consecutive_correct = 0,
               !.consecutive_incorrect = 0,
               !.total_interactions = 0, !.was_demoted = FALSE ]

\* what lastCall records of a resetCourse call: whether, at its start, the course had an
\* answered question, a question with notes, a hidden question
ResetCall ==
    Merge(Call("resetCourse"),
          [ answered |-> interactions # << >>,
            noted |-> \E i \in DOMAIN questionStates : questionStates[i].notes # "",
            hid |-> \E i \in DOMAIN questionStates : questionStates[i].hidden ])

\* resetCourse
ResetCourse ==
    /\ CourseExists
    /\ questionStates' = [ i \in DOMAIN questionStates |-> ResetState(questionStates[i]) ]
    /\ courseStats' = [ courseStats EXCEPT !.latent_count = courseStats.question_count,
                                           !.test_count = 0, !.learned_count = 0,
                                           !.master_count = 0 ]
    /\ Logs(1)
    /\ logs' = << LogEntry(nextLogId, CourseEvent("course_reset")) >>
    /\ interactions' = << >>
    /\ result' = NoResult
    /\ lastCall' = ResetCall
    /\ UNCHANGED << config, now, everHidden, streak >>

\* the partial updates updateConfig is called with (those of the scenario tests, and zero weights)
ConfigUpdates ==
    { [ test_pool_target_size |-> 1, promotion_consecutive_correct |-> 1,
        snooze_test_correct_minutes |-> 0, snooze_learned_correct_hours |-> 0 ],
      [ pool_weight_test |-> 0, pool_weight_learned |-> 0, pool_weight_master |-> 0 ] }

\* what lastCall records of an updateConfig call: the partial update, and the configuration
\* and the stored data at its start
UpdateCall(updates) ==
    Merge(Call("updateConfig"),
          [ updates |-> updates, config0 |-> config,
            before |-> << questionStates, courseStats, logs, interactions, nextLogId >> ])

\* faulty variant of updateConfig: the update is merged into the default configuration
UpdateConfigOverDefaults(updates) ==
    /\ Merge(config, updates) # config
    /\ config' = Merge(DEFAULT_CONFIG, updates)
    /\ result' = NoResult
    /\ lastCall' = UpdateCall(updates)
    /\ UNCHANGED << questionStates, courseStats, now, nextLogId, everHidden, streak,
                    logs, interactions >>

UpdateConfig(updates) ==
    /\ Merge(config, updates) # config
    /\ config' = Merge(config, updates)
    /\ result' = NoResult
    /\ lastCall' = UpdateCall(updates)
    /\ UNCHANGED << questionStates, courseStats, now, nextLogId, everHidden, streak,
                    logs, interactions >>

\* the non-hidden questions the NoQuestionsScreen looks at
Scheduled(qs) ==
    SelectSeq(qs, LAMBDA s : s.pool \in { "test", "learned", "master" } /\ ~s.hidden)

\* NoQuestionsScreen after findNextQuestion returned null: with no question available it counts
\* down secondsLeft = max(1, ceil((earliest - now) / 1000)) seconds to the earliest snooze
\* expiry, and Date.now() has moved on by that much when the study screen comes back
NoQuestionsCountdown ==
    LET sched == Scheduled(questionStates)
        expiries == { sched[i].snooze_until : i \in DOMAIN sched }
        earliest == CHOOSE t \in expiries : \A u \in expiries : t <= u
        secondsLeft == Max(1, (earliest - now + 999) \div 1000)
    IN  /\ result = NullResult
        /\ expiries # {}
        /\ \A i \in DOMAIN sched : ~(sched[i].snooze_until = Null \/ sched[i].snooze_until <= now)
        /\ now' = now + secondsLeft * 1000
    /\ lastCall' = Other
    /\ UNCHANGED << questionStates, courseStats, config, result, nextLogId, everHidden, streak,
                    logs, interactions >>

\* faulty variant of findNextQuestion: the returned question is marked as shown
FindNextQuestionMarkingShown ==
    LET r == refillTestPoolFromLatent(questionStates, courseStats, config)
    IN  /\ Logs(r.promoted)
        /\ logs' = Pushed(RefillEvents(questionStates, r.qs))
        /\ result' \in findNextQuestionReturns(r.qs, config, now)
        /\ questionStates' =
              IF result'.kind = "question"
              THEN [ r.qs EXCEPT ![result'.state.question_id].last_shown = now ]
              ELSE r.qs
        /\ courseStats' = r.stats
        /\ lastCall' = Call("findNextQuestion")
        /\ UNCHANGED << config, now, everHidden, streak, interactions >>

\* findNextQuestion(courseId): the refill, then the selection
FindNextQuestion ==
    LET r == refillTestPoolFromLatent(questionStates, courseStats, config)
    IN  /\ Logs(r.promoted)
        /\ questionStates' = r.qs
        /\ courseStats' = r.stats
        /\ logs' = Pushed(RefillEvents(questionStates, r.qs))
        /\ result' \in findNextQuestionReturns(r.qs, config, now)
        /\ lastCall' = Call("findNextQuestion")
        /\ UNCHANGED << config, now, everHidden, streak, interactions >>

\* refillTestPoolFromLatent(courseId) called on its own; lastCall keeps the number it returns
Refill ==
    LET r == refillTestPoolFromLatent(questionStates, courseStats, config)
    IN  /\ CourseExists
        /\ Logs(r.promoted)
        /\ questionStates' = r.qs
        /\ courseStats' = r.stats
        /\ logs' = Pushed(RefillEvents(questionStates, r.qs))
        /\ result' = NoResult
        /\ lastCall' = Merge(Call("refillTestPoolFromLatent"), [ returned |-> r.promoted ])
        /\ UNCHANGED << config, now, everHidden, streak, interactions >>

\* what lastCall records of a hideQuestion call: the question, and the states and the stats
\* at its start
HideCall(questionId) ==
    Merge(Call("hideQuestion"),
          [ questionId |-> questionId, before |-> questionStates, stats0 |-> courseStats ])

\* faulty variant of hideQuestion: no refill after a Test question is hidden
HideQuestionWithoutRefill(questionId) ==
    /\ CourseExists
    /\ questionId \in DOMAIN questionStates
    /\ LET s == questionStates[questionId]
           wasTestPool == (s.pool = "test")
           qs1 == [ questionStates EXCEPT ![questionId].hidden = TRUE ]
           st1 == [ SetPoolCount(courseStats, s.pool, PoolCount(courseStats, s.pool) - 1)
                      EXCEPT !.question_count = @ - 1 ]
           r == [ qs |-> qs1, stats |-> st1, promoted |-> 0 ]
       IN  /\ Logs(1 + r.promoted)
           /\ logs' = Pushed(<< QuestionEvent("question_hidden", questionId) >>
                               \o RefillEvents(qs1, r.qs))
           /\ questionStates' = r.qs
           /\ courseStats' = r.stats
    /\ everHidden' = everHidden \cup { questionId }
    /\ result' = NoResult
    /\ lastCall' = HideCall(questionId)
    /\ UNCHANGED << config, now, streak, interactions >>

\* hideQuestion(courseId, questionId)
HideQuestion(questionId) ==
    /\ CourseExists
    /\ questionId \in DOMAIN questionStates
    /\ LET s == questionStates[questionId]
           wasTestPool == (s.pool = "test")
           qs1 == [ questionStates EXCEPT ![questionId].hidden = TRUE ]
           st1 == [ SetPoolCount(courseStats, s.pool, PoolCount(courseStats, s.pool) - 1)
                      EXCEPT !.question_count = @ - 1 ]
           r == IF wasTestPool THEN refillTestPoolFromLatent(qs1, st1, config)
                ELSE [ qs |-> qs1, stats |-> st1, promoted |-> 0 ]
       IN  /\ Logs(1 + r.promoted)
           /\ logs' = Pushed(<< QuestionEvent("question_hidden", questionId) >>
                               \o RefillEvents(qs1, r.qs))
           /\ questionStates' = r.qs
           /\ courseStats' = r.stats
    /\ everHidden' = everHidden \cup { questionId }
    /\ result' = NoResult
    /\ lastCall' = HideCall(questionId)
    /\ UNCHANGED << config, now, streak, interactions >>

\* AppProvider.processAnswer on the scheduling result the caller holds: processAnswerPure,
\* logEvent per event, updateQuestionStateWithPoolTransition, recordInteraction,
\* logEvent(user_interaction), and the refill when the question left Test
ProcessAnswerCall(answer) ==
    /\ result.kind = "question"
    /\ LET ar == processAnswerPure(result, answer, config, now)
           w == updateQuestionStateWithPoolTransition(questionStates, courseStats,
                    result.state.question_id, ar.stateUpdates, ar.oldPool, ar.newPool)
           r == IF ar.needsTestPoolRefill
                THEN refillTestPoolFromLatent(w.qs, w.stats, config)
                ELSE [ qs |-> w.qs, stats |-> w.stats, promoted |-> 0 ]
       IN  /\ Logs(Len(ar.events) + 1 + r.promoted)
           /\ logs' = Pushed(ar.events
                               \o << QuestionEvent("user_interaction", result.state.question_id) >>
                               \o RefillEvents(w.qs, r.qs))
           /\ interactions' = Append(interactions,
                  Interaction(result.state.question_id, answer, ar.correct, result.strategy,
                              ar.oldPool))
           /\ questionStates' = r.qs
           /\ courseStats' = r.stats
           /\ lastCall' = [ op |-> "processAnswer", state |-> result.state, answer |-> ar,
                            at |-> now ]
    /\ UNCHANGED << config, now, everHidden, streak >>

\* an answer submitted on StudyScreen: processAnswer, then the feedback screen replaces the
\* study screen and the scheduling result it held
ProcessAnswer(answer) ==
    /\ ProcessAnswerCall(answer)
    /\ result' = NoResult

Next ==
    \/ \E n \in 0..NumQ : CreateCourse(n)
    \/ CreateCourseDuplicateName
    \/ DeleteCourse
    \/ ResetCourse
    \/ \E u \in ConfigUpdates : UpdateConfig(u)
    \/ NoQuestionsCountdown
    \/ FindNextQuestion
    \/ Refill
    \/ \E q \in 1..NumQ : HideQuestion(q)
    \/ \E a \in Options : ProcessAnswer(a)

Spec == Init /\ [][Next]_vars

----------------------------------------------------------------------------
(* Properties of the scheduler, checked under Spec *)

AfterFind == lastCall.op = "findNextQuestion"

AfterFindOrRefill == lastCall.op \in { "findNextQuestion", "refillTestPoolFromLatent" }

ReturnedQuestion == AfterFind /\ result.kind = "question"

Snoozed(s) == s.snooze_until # Null /\ s.snooze_until > now

\* the ids of the questions a getAvailableQuestions call returns now, over the four pools
AvailableIds ==
    UNION { { getAvailableQuestions(questionStates, pool, now)[i].question_id :
                 i \in 1..Len(getAvailableQuestions(questionStates, pool, now)) } :
            pool \in { "latent", "test", "learned", "master" } }

\* C1: findNextQuestion never returns a question whose snooze_until is greater than the
\* current time: the returned state is the stored state of the question, and its
\* snooze_until is null or not after now.
C1_SnoozeSafety ==
    ReturnedQuestion =>
        /\ result.state = questionStates[result.state.question_id]
        /\ ~Snoozed(result.state)

\* findNextQuestion has returned a question while another one, promoted to Learned by an
\* answer at this very instant, is snoozed
C1_Witness ==
    /\ ReturnedQuestion
    /\ \E i \in DOMAIN questionStates :
          /\ i # result.state.question_id
          /\ questionStates[i].pool = "learned"
          /\ questionStates[i].last_shown = now
          /\ Snoozed(questionStates[i])
          /\ ~questionStates[i].hidden

HiddenExcluded ==
    /\ \A i \in DOMAIN questionStates : questionStates[i].hidden => i \notin AvailableIds
    /\ ReturnedQuestion => ~result.state.hidden

\* a step that clears a hidden flag is a resetCourse step
HiddenClearedOnlyByReset ==
    \A i \in (DOMAIN questionStates) \cap (DOMAIN questionStates') :
        (questionStates[i].hidden /\ ~questionStates'[i].hidden) =>
            questionStates' = [ j \in DOMAIN questionStates |-> ResetState(questionStates[j]) ]

TotalNonHidden == Len(NotHidden(questionStates))

\* C3 as stated: after findNextQuestion on a course with at least test_pool_target_size
\* non-hidden questions, the non-hidden Test count is min(target, Latent + Test at the start).
C3_TestEqualsMin ==
    (AfterFind /\ lastCall.existed /\ TotalNonHidden >= config.test_pool_target_size) =>
        NonHiddenIn(questionStates, "test")
            = Min(config.test_pool_target_size, lastCall.latent0 + lastCall.test0)

\* C3: after findNextQuestion on a course with at least test_pool_target_size non-hidden
\* questions, the non-hidden Test count is min(target, Latent + Test at the start) when Test
\* started at or below the target, and is unchanged when Test started above it.
C3_TestAfterFind ==
    (AfterFind /\ lastCall.existed /\ TotalNonHidden >= config.test_pool_target_size) =>
        NonHiddenIn(questionStates, "test")
            = Max(lastCall.test0,
                  Min(config.test_pool_target_size, lastCall.latent0 + lastCall.test0))

\* findNextQuestion ran while Test, holding a question demoted from Learned, was above the target
C3_Witness ==
    /\ AfterFind /\ lastCall.existed
    /\ TotalNonHidden >= config.test_pool_target_size
    /\ lastCall.test0 > config.test_pool_target_size
    /\ \E i \in DOMAIN questionStates :
          questionStates[i].pool = "test" /\ questionStates[i].was_demoted

\* C4: after findNextQuestion or refillTestPoolFromLatent, a non-hidden Test count below the
\* target means no non-hidden question is left in Latent.
C4_BelowTargetOnlyWhenLatentEmpty ==
    (AfterFindOrRefill /\ lastCall.existed
        /\ NonHiddenIn(questionStates, "test") < config.test_pool_target_size) =>
            NonHiddenIn(questionStates, "latent") = 0

\* a refill that promoted every Latent question and still left Test below the target
C4_Witness ==
    /\ AfterFindOrRefill /\ lastCall.existed
    /\ lastCall.latent0 > 0
    /\ NonHiddenIn(questionStates, "latent") = 0
    /\ NonHiddenIn(questionStates, "test") < config.test_pool_target_size

\* a question of Test, Learned or Master that is not hidden and not snoozed
Eligible(s) ==
    /\ s.pool \in { "test", "learned", "master" }
    /\ ~s.hidden
    /\ ~Snoozed(s)

\* C5: on an existing course findNextQuestion returns null exactly when, after its refill
\* step, no question is eligible, and returns a question otherwise, whatever the weights
\* and the draws.
C5_NullIffNothingEligible ==
    (AfterFind /\ lastCall.existed) =>
        /\ result.kind \in { "null", "question" }
        /\ result = NullResult <=>
              ~ \E i \in DOMAIN questionStates : Eligible(questionStates[i])

\* findNextQuestion has returned a question while every pool weight is 0
C5_Witness ==
    /\ ReturnedQuestion
    /\ config.pool_weight_test = 0
    /\ config.pool_weight_learned = 0
    /\ config.pool_weight_master = 0

\* C6 as stated: findNextQuestion on a course that does not exist fails with an error and
\* does not return the null result.
C6_MissingCourseFails ==
    (AfterFind /\ ~lastCall.existed) => result.kind = "error"

----------------------------------------------------------------------------
(* Answer streaks: processAnswer applied again and again to one stored        *)
(* question, from every state a shown question can be stored in.              *)

\* how many answers a question of the pool has received at least
PoolRank(pool) == IF pool = "test" THEN 0 ELSE IF pool = "learned" THEN 1 ELSE 2

\* the stored states of a non-hidden question in Test, Learned or Master: an answer zeroes
\* one of the two consecutive counters, a promotion into Master clears was_demoted, and a
\* question that was never answered has no last_shown and no snooze_until
Snapshots ==
    { [ question_id           |-> 1,
        pool                  |-> pool,
        last_shown            |-> IF cc + ci + PoolRank(pool) = 0 /\ ~wd THEN Null ELSE 0,
        snooze_until          |-> IF cc + ci + PoolRank(pool) = 0 /\ ~wd THEN Null ELSE 0,
        hidden                |-> FALSE,
        notes                 |-> "",
        consecutive_correct   |-> cc,
        consecutive_incorrect |-> ci,
        total_interactions    |-> cc + ci + PoolRank(pool) + (IF wd THEN 2 ELSE 0),
        was_demoted           |-> wd ] :
      pool \in { "test", "learned", "master" },
      cc \in 0..MaxCount, ci \in 0..MaxCount, wd \in BOOLEAN }

Stored ==
    { s \in Snapshots :
        /\ s.consecutive_correct = 0 \/ s.consecutive_incorrect = 0
        /\ s.pool = "master" => ~s.was_demoted }

\* the configurations updateConfig can leave for the two thresholds
AnswerConfigs ==
    { Merge(DEFAULT_CONFIG, [ promotion_consecutive_correct |-> n,
                              demotion_incorrect_count |-> d ]) :
      n \in 0..MaxThreshold, d \in 0..MaxThreshold }

\* the CourseStats of a course whose only question is s
StatsOf(s) ==
    SetPoolCount([ id |-> "course", question_count |-> 1, latent_count |-> 0,
                   test_count |-> 0, learned_count |-> 0, master_count |-> 0 ],
                 s.pool, 1)

AnswerInit ==
    \E s \in Stored, cfg \in AnswerConfigs :
        /\ questionStates = << s >>
        /\ courseStats = StatsOf(s)
        /\ config = cfg
        /\ now = 0
        /\ result = NoResult
        /\ nextLogId = 1
        /\ lastCall = Other
        /\ everHidden = {}
        /\ streak = [ start |-> s, log |-> << >> ]
        /\ logs = << >>
        /\ interactions = << >>

\* AppProvider.processAnswer on the stored question, shown again once its snooze has expired
AnswerStreak(answer) ==
    /\ Len(streak.log) < MaxStreak
    /\ LET s == questionStates[1]
           shown == QuestionResult([ strategy |-> "random", selected |-> s ])
           ar == processAnswerPure(shown, answer, config, now)
           w == updateQuestionStateWithPoolTransition(questionStates, courseStats,
                    s.question_id, ar.stateUpdates, ar.oldPool, ar.newPool)
           r == IF ar.needsTestPoolRefill
                THEN refillTestPoolFromLatent(w.qs, w.stats, config)
                ELSE [ qs |-> w.qs, stats |-> w.stats, promoted |-> 0 ]
       IN  /\ questionStates' = r.qs
           /\ courseStats' = r.stats
           /\ nextLogId' = nextLogId + Len(ar.events) + 1 + r.promoted
           /\ logs' = Pushed(ar.events
                               \o << QuestionEvent("user_interaction", s.question_id) >>
                               \o RefillEvents(w.qs, r.qs))
           /\ interactions' = Append(interactions,
                  Interaction(s.question_id, answer, ar.correct, shown.strategy, ar.oldPool))
           /\ now' = ar.snoozeUntil
           /\ lastCall' = [ op |-> "processAnswer", state |-> s, answer |-> ar, at |-> now ]
           /\ streak' = [ streak EXCEPT !.log = Append(@, ar) ]
    /\ result' = NoResult
    /\ UNCHANGED << config, everHidden >>

AnswerNext == \E a \in Options : AnswerStreak(a)

AnswerSpec == AnswerInit /\ [][AnswerNext]_vars

----------------------------------------------------------------------------
(* Properties of the answer transition, checked under AnswerSpec *)

AfterAnswer == lastCall.op = "processAnswer"

AllCorrect(log) == \A i \in 1..Len(log) : log[i].correct

\* the answers of the log that moved the question from Test to Learned
PromotionsFromTest(log) ==
    { i \in 1..Len(log) : log[i].oldPool = "test" /\ log[i].newPool = "learned" }

UpOneTier(pool) == IF pool = "test" THEN "learned" ELSE "master"

DownOneTier(pool) == IF pool = "master" THEN "learned" ELSE "test"

\* C7 as stated (for N >= 1): from any question in Test, consecutive correct answers move it
\* to Learned exactly once, on the N-th answer and not earlier, N = promotion_consecutive_correct.
C7_PromotedOnNth ==
    LET N == config.promotion_consecutive_correct
        log == streak.log
    IN  (streak.start.pool = "test" /\ N >= 1 /\ AllCorrect(log)) =>
            PromotionsFromTest(log) = IF Len(log) >= N THEN { N } ELSE { }

\* C7: from a question in Test with consecutive_correct = c, consecutive correct answers move
\* it to Learned exactly once, on answer number max(1, N - c) and not earlier (the N-th answer
\* when c = 0), with one promotion event, and consecutive_correct is 0 right after that answer.
C7_PromotedOnceAtThreshold ==
    LET N == config.promotion_consecutive_correct
        c == streak.start.consecutive_correct
        K == Max(1, N - c)
        log == streak.log
    IN  (streak.start.pool = "test" /\ AllCorrect(log)) =>
            /\ PromotionsFromTest(log) = IF Len(log) >= K THEN { K } ELSE { }
            /\ \A i \in 1..Len(log) :
                  /\ i < K => /\ log[i].newPool = "test"
                              /\ log[i].events = << >>
                              /\ log[i].stateUpdates.consecutive_correct = c + i
                  /\ i = K => /\ log[i].events = << PromotionEvent(1, "test", "learned") >>
                              /\ log[i].stateUpdates.consecutive_correct = 0
            /\ Len(log) = K => /\ questionStates[1].pool = "learned"
                               /\ questionStates[1].consecutive_correct = 0

\* three correct answers from a fresh Test question with N = 3: the third one promoted it
C7_Witness ==
    /\ streak.start.pool = "test"
    /\ streak.start.consecutive_correct = 0
    /\ config.promotion_consecutive_correct = 3
    /\ Len(streak.log) = 3
    /\ AllCorrect(streak.log)
    /\ questionStates[1].pool = "learned"

\* C8: an incorrect answer to a question in Test leaves it in Test and emits no event, for
\* every demotion_incorrect_count and every consecutive_incorrect.
C8_TestNeverDemoted ==
    (AfterAnswer /\ lastCall.state.pool = "test" /\ ~lastCall.answer.correct) =>
        /\ lastCall.answer.newPool = "test"
        /\ lastCall.answer.events = << >>
        /\ questionStates[1].pool = "test"
        /\ courseStats = StatsOf(lastCall.state)

\* an incorrect answer in Test that took consecutive_incorrect to the demotion threshold
C8_Witness ==
    /\ AfterAnswer
    /\ lastCall.state.pool = "test"
    /\ ~lastCall.answer.correct
    /\ config.demotion_incorrect_count >= 1
    /\ lastCall.state.consecutive_incorrect + 1 >= config.demotion_incorrect_count

\* C9: a correct answer increments consecutive_correct and zeroes consecutive_incorrect; at
\* or above promotion_consecutive_correct in Test or Learned the question moves up one tier,
\* consecutive_correct is reset to 0 and was_demoted is set false; needsTestPoolRefill is
\* true exactly when the question left Test; a correct answer in Master keeps the pool.
C9_CorrectAnswer ==
    LET s == lastCall.state
        ar == lastCall.answer
        u == ar.stateUpdates
        q == questionStates[1]
        incremented == s.consecutive_correct + 1
    IN  (AfterAnswer /\ ar.correct) =>
            /\ u.consecutive_incorrect = 0
            /\ IF incremented >= config.promotion_consecutive_correct
                  /\ s.pool \in { "test", "learned" }
               THEN /\ ar.newPool = UpOneTier(s.pool)
                    /\ u.consecutive_correct = 0
                    /\ "was_demoted" \in DOMAIN u
                    /\ ~q.was_demoted
               ELSE /\ ar.newPool = s.pool
                    /\ u.consecutive_correct = incremented
            /\ ar.needsTestPoolRefill <=> (s.pool = "test" /\ ar.newPool # "test")
            /\ s.pool = "master" => ar.newPool = "master"
            /\ q.pool = ar.newPool
            /\ q.consecutive_correct = u.consecutive_correct
            /\ q.consecutive_incorrect = 0

\* a correct answer that promoted a question marked was_demoted from Learned to Master
C9_Witness ==
    /\ AfterAnswer
    /\ lastCall.answer.correct
    /\ lastCall.state.pool = "learned"
    /\ lastCall.state.was_demoted
    /\ lastCall.answer.newPool = "master"
    /\ ~lastCall.answer.needsTestPoolRefill

\* C10: an incorrect answer zeroes consecutive_correct and increments consecutive_incorrect;
\* at or above demotion_incorrect_count in Master or Learned the question moves down one tier
\* and consecutive_incorrect is reset to 0; below the threshold the pool is unchanged and
\* consecutive_incorrect keeps the incremented value.
C10_IncorrectAnswer ==
    LET s == lastCall.state
        ar == lastCall.answer
        u == ar.stateUpdates
        q == questionStates[1]
        incremented == s.consecutive_incorrect + 1
    IN  (AfterAnswer /\ ~ar.correct) =>
            /\ u.consecutive_correct = 0
            /\ IF s.pool \in { "master", "learned" }
                  /\ incremented >= config.demotion_incorrect_count
               THEN /\ ar.newPool = DownOneTier(s.pool)
                    /\ u.consecutive_incorrect = 0
               ELSE /\ ar.newPool = s.pool
                    /\ u.consecutive_incorrect = incremented
            /\ q.pool = ar.newPool
            /\ q.consecutive_correct = 0
            /\ q.consecutive_incorrect = u.consecutive_incorrect

\* an incorrect answer in Learned below a threshold of 3
C10_Witness ==
    /\ AfterAnswer
    /\ ~lastCall.answer.correct
    /\ lastCall.state.pool = "learned"
    /\ config.demotion_incorrect_count = 3
    /\ lastCall.answer.newPool = "learned"
    /\ questionStates[1].consecutive_incorrect = 2

\* the answer moved the question up a tier
Promoted(s, ar) == ar.correct /\ ar.newPool # s.pool

\* the answer was incorrect and moved the question out of Master or Learned
Demoted(s, ar) ==
    (~ar.correct) /\ s.pool \in { "master", "learned" } /\ ar.newPool # s.pool

\* C11: processAnswer sets was_demoted to true exactly when an incorrect answer demotes the
\* question out of Master or Learned, to false exactly when the answer promotes it, and
\* otherwise the state updates carry no was_demoted field and the stored value is unchanged.
C11_WasDemotedFrame ==
    LET s == lastCall.state
        ar == lastCall.answer
        u == ar.stateUpdates
        q == questionStates[1]
    IN  AfterAnswer =>
            /\ ("was_demoted" \in DOMAIN u) <=> (Demoted(s, ar) \/ Promoted(s, ar))
            /\ Demoted(s, ar) => (u.was_demoted /\ q.was_demoted)
            /\ Promoted(s, ar) => (~u.was_demoted /\ ~q.was_demoted)
            /\ ~(Demoted(s, ar) \/ Promoted(s, ar)) => q.was_demoted = s.was_demoted

\* an answer that neither promoted nor demoted a question marked was_demoted: the mark stayed
C11_Witness ==
    /\ AfterAnswer
    /\ lastCall.state.was_demoted
    /\ "was_demoted" \notin DOMAIN lastCall.answer.stateUpdates
    /\ questionStates[1].was_demoted
    /\ Len(streak.log) >= 2
    /\ streak.log[1].newPool # streak.log[1].oldPool

\* the snooze, in minutes, the configuration gives an answer in the pool
ExpectedSnoozeMinutes(pool, correct) ==
    IF ~correct THEN config.snooze_incorrect_minutes
    ELSE IF pool = "test" THEN config.snooze_test_correct_minutes
    ELSE IF pool = "learned" THEN config.snooze_learned_correct_hours * 60
    ELSE config.snooze_master_correct_days * 1440

\* C12: the snooze is determined by the pool before the transition (test minutes, learned
\* hours x 60, master days x 1440, the incorrect minutes for any incorrect answer), and
\* snoozeUntil = now + snoozeDurationMinutes x 60000 is the snooze_until written to the state.
C12_SnoozeDuration ==
    LET s == lastCall.state
        ar == lastCall.answer
    IN  AfterAnswer =>
            /\ ar.snoozeDurationMinutes = ExpectedSnoozeMinutes(s.pool, ar.correct)
            /\ ar.snoozeUntil = lastCall.at + ar.snoozeDurationMinutes * 60000
            /\ ar.stateUpdates.snooze_until = ar.snoozeUntil
            /\ questionStates[1].snooze_until = ar.snoozeUntil

\* a correct answer, given after time has passed, that promoted a Learned question: it is
\* snoozed by the Learned duration, not the Master one
C12_Witness ==
    /\ AfterAnswer
    /\ lastCall.at > 0
    /\ lastCall.answer.correct
    /\ lastCall.state.pool = "learned"
    /\ lastCall.answer.newPool = "master"
    /\ questionStates[1].snooze_until = lastCall.at + config.snooze_learned_correct_hours * 3600000

\* C13: every processAnswer call, correct or not and whether or not the pool changes, yields
\* total_interactions equal to the snapshot's total_interactions plus exactly 1.
C13_TotalInteractions ==
    AfterAnswer =>
        /\ lastCall.answer.stateUpdates.total_interactions = lastCall.state.total_interactions + 1
        /\ questionStates[1].total_interactions = lastCall.state.total_interactions + 1
        /\ questionStates[1].total_interactions
              = streak.start.total_interactions + Len(streak.log)

\* three answers, correct and incorrect, with and without a pool change: three more interactions
C13_Witness ==
    /\ Len(streak.log) = 3
    /\ streak.log[1].correct /\ streak.log[1].newPool # streak.log[1].oldPool
    /\ ~streak.log[2].correct /\ streak.log[2].newPool = streak.log[2].oldPool
    /\ ~streak.log[3].correct /\ streak.log[3].newPool # streak.log[3].oldPool
    /\ questionStates[1].total_interactions = streak.start.total_interactions + 3

\* the position of a pool among the tiers test, learned, master
Tier(pool) == IF pool = "test" THEN 1 ELSE IF pool = "learned" THEN 2 ELSE 3

\* the event list holds exactly one event of the type, from oldPool to newPool
OneEvent(ar, type) ==
    /\ Len(ar.events) = 1
    /\ ar.events[1].type = type
    /\ ar.events[1].from = ar.oldPool
    /\ ar.events[1].to = ar.newPool
    /\ ar.events[1].question_id = lastCall.state.question_id

\* C14: processAnswer returns at most one event: exactly one promotion when newPool is one
\* tier above oldPool, exactly one demotion when it is one tier below, none when the pool
\* is unchanged; the event's from/to are oldPool/newPool.
C14_AtMostOneEvent ==
    LET ar == lastCall.answer
    IN  AfterAnswer =>
            /\ Len(ar.events) <= 1
            /\ ar.oldPool = lastCall.state.pool
            /\ Tier(ar.newPool) - Tier(ar.oldPool) \in { -1, 0, 1 }
            /\ Tier(ar.newPool) = Tier(ar.oldPool) + 1 => OneEvent(ar, "promotion")
            /\ Tier(ar.newPool) = Tier(ar.oldPool) - 1 => OneEvent(ar, "demotion")
            /\ ar.newPool = ar.oldPool => ar.events = << >>

\* a streak with a promotion event, then a demotion event, then an answer without event
C14_Witness ==
    /\ Len(streak.log) = 3
    /\ Len(streak.log[1].events) = 1 /\ streak.log[1].events[1].type = "promotion"
    /\ Len(streak.log[2].events) = 1 /\ streak.log[2].events[1].type = "demotion"
    /\ streak.log[3].events = << >>

----------------------------------------------------------------------------
(* Calls of processAnswerPure on a snapshot the caller holds, while the       *)
(* store and the clock move on: streak.log records each call's inputs, its    *)
(* outcome, and the clock and the stored state at the time of the call.       *)

PureInit ==
    \E s \in Stored :
        /\ questionStates = << s >>
        /\ courseStats = StatsOf(s)
        /\ config = DEFAULT_CONFIG
        /\ now = 0
        /\ result = QuestionResult([ strategy |-> "random", selected |-> s ])
        /\ nextLogId = 1
        /\ lastCall = Other
        /\ everHidden = {}
        /\ streak = [ start |-> s, log |-> << >> ]
        /\ logs = << >>
        /\ interactions = << >>

\* processAnswerPure(result, answer, config, t): nothing but the returned value is produced
CallPure(answer, t) ==
    /\ Len(streak.log) < MaxStreak
    /\ LET ar == processAnswerPure(result, answer, config, t)
       IN  /\ streak' = [ streak EXCEPT !.log =
                            Append(@, [ inputs |-> << result, answer, config, t >>,
                                        outcome |-> ar,
                                        clock |-> now,
                                        stored |-> questionStates[1] ]) ]
           /\ lastCall' = [ op |-> "processAnswerPure", outcome |-> ar,
                            before |-> << questionStates, courseStats, nextLogId >> ]
    /\ UNCHANGED << questionStates, courseStats, config, now, result, nextLogId, everHidden,
                    logs, interactions >>

\* the caller persists the outcome of the last call (AppProvider.processAnswer, lines 166-196)
PersistOutcome ==
    /\ lastCall.op = "processAnswerPure"
    /\ LET ar == lastCall.outcome
           w == updateQuestionStateWithPoolTransition(questionStates, courseStats,
                    result.state.question_id, ar.stateUpdates, ar.oldPool, ar.newPool)
       IN  /\ questionStates' = w.qs
           /\ courseStats' = w.stats
           /\ nextLogId' = nextLogId + Len(ar.events) + 1
           /\ logs' = Pushed(ar.events
                               \o << QuestionEvent("user_interaction", result.state.question_id) >>)
           /\ interactions' = Append(interactions,
                  Interaction(result.state.question_id, streak.log[Len(streak.log)].inputs[2], ar.correct,
                              result.strategy, ar.oldPool))
    /\ lastCall' = Other
    /\ UNCHANGED << config, now, result, everHidden, streak >>

\* Date.now() moves on by a minute
ClockTick ==
    /\ now < MaxTicks * 60000
    /\ now' = now + 60000
    /\ lastCall' = Other
    /\ UNCHANGED << questionStates, courseStats, config, result, nextLogId, everHidden, streak,
                    logs, interactions >>

PureNext ==
    \/ \E a \in Options, t \in { 0, now } : CallPure(a, t)
    \/ PersistOutcome
    \/ ClockTick

PureSpec == PureInit /\ [][PureNext]_vars

----------------------------------------------------------------------------
(* Properties of the store, checked under Spec *)

\* C16 as stated: in every reachable state each of latent_count, test_count, learned_count
\* and master_count equals the number of non-hidden questions in that pool, and
\* question_count equals the number of non-hidden questions of the course.
C16_StatsInSync ==
    CourseExists =>
        /\ \A pool \in { "latent", "test", "learned", "master" } :
              PoolCount(courseStats, pool) = NonHiddenIn(questionStates, pool)
        /\ courseStats.question_count = TotalNonHidden

AfterHide == lastCall.op = "hideQuestion"

\* the questions whose pool the last hideQuestion call changed
MovedByHide ==
    { i \in DOMAIN questionStates : questionStates[i].pool # lastCall.before[i].pool }

\* C17 as stated: a hideQuestion call sets hidden = true and decreases the count of the
\* question's pool and question_count by exactly 1 each (the refill after a Test question
\* then moves its promotions from latent_count to test_count), and across any sequence of
\* calls question_count has decreased by exactly 1 per hidden question.
C17_OneDecreasePerQuestion ==
    /\ AfterHide =>
          LET q == lastCall.questionId
              pool == lastCall.before[q].pool
              moved == Cardinality(MovedByHide)
              own(p) == IF p = pool THEN 1 ELSE 0
          IN  /\ questionStates[q].hidden
              /\ courseStats.question_count = lastCall.stats0.question_count - 1
              /\ courseStats.latent_count
                    = lastCall.stats0.latent_count - own("latent") - moved
              /\ courseStats.test_count = lastCall.stats0.test_count - own("test") + moved
              /\ courseStats.learned_count = lastCall.stats0.learned_count - own("learned")
              /\ courseStats.master_count = lastCall.stats0.master_count - own("master")
    /\ CourseExists =>
          courseStats.question_count = Len(questionStates) - Cardinality(everHidden)

\* the questions the refill inside hideQuestion has to move: with the question hidden, the
\* lowest-id non-hidden Latent questions, as many as Test is below the target
DueAfterHide ==
    LET q == lastCall.questionId
        b == [ lastCall.before EXCEPT ![q].hidden = TRUE ]
        latent == { i \in DOMAIN b : b[i].pool = "latent" /\ ~b[i].hidden }
        room == config.test_pool_target_size - NonHiddenIn(b, "test")
    IN  IF lastCall.before[q].pool # "test" THEN { }
        ELSE { i \in latent : Cardinality({ j \in latent : j < i }) < room }

AfterCreate == lastCall.op = "createCourse"

\* C19: createCourse with the name of an existing course fails and leaves the store
\* unchanged (no stats, states or log entries are added or changed); it fails only then, and
\* after deleteCourse the course is gone, so that the name can be used again.
C19_DuplicateNameRejected ==
    /\ AfterCreate =>
          /\ lastCall.failed <=> lastCall.existed
          /\ lastCall.failed =>
                << questionStates, courseStats, nextLogId >> = lastCall.before
          /\ ~lastCall.failed => (CourseExists /\ nextLogId = lastCall.before[3] + 1)
    /\ lastCall.op = "deleteCourse" => (~CourseExists /\ questionStates = << >>)

\* a duplicate createCourse has failed on a course that holds answered questions
C19_Witness ==
    /\ AfterCreate
    /\ lastCall.failed
    /\ \E i \in DOMAIN questionStates : questionStates[i].total_interactions > 0

\* createCourse has succeeded again after an earlier course was created and deleted
C19_NameReused ==
    /\ AfterCreate
    /\ ~lastCall.failed
    /\ lastCall.before[3] > 1

----------------------------------------------------------------------------
(* createCourse on the questions arrays a client can send *)

Str(v) == [ t |-> "string", v |-> v ]

Undefined == [ t |-> "undefined", v |-> "" ]

Arr(v) == [ t |-> "array", v |-> v ]

\* a question object of the input
QuestionItem(question, options, correct_option, explanation) ==
    [ t |-> "object", question |-> question, options |-> options,
      correct_option |-> correct_option, explanation |-> explanation ]

\* an item of the input that is no object (a string)
NotAnObject ==
    [ t |-> "string", question |-> Undefined, options |-> [ t |-> "undefined", v |-> << >> ],
      correct_option |-> Undefined, explanation |-> Undefined ]

\* two well-formed questions, and one item for each way validateQuestion rejects an item
Items ==
    { QuestionItem(Str("Q1"), Arr(<< "A", "B" >>), Str("A"), Str("E1")),
      QuestionItem(Str("Q2"), Arr(<< "A", "B" >>), Str("B"), Str("E2")),
      NotAnObject,
      QuestionItem(Str(" "), Arr(<< "A", "B" >>), Str("A"), Str("E1")),
      QuestionItem(Str(""), Arr(<< "A", "B" >>), Str("A"), Str("E1")),
      QuestionItem(Str("Q1"), Arr(<< "A" >>), Str("A"), Str("E1")),
      QuestionItem(Str("Q1"), Arr(<< "A", "A" >>), Str("A"), Str("E1")),
      QuestionItem(Str("Q1"), Arr(<< "A", "B" >>), Undefined, Str("E1")),
      QuestionItem(Str("Q1"), Arr(<< "A", "B" >>), Str("A"), Undefined),
      QuestionItem(Str("Q1"), Arr(<< "A", "B" >>), Str("C"), Str("E1")) }

\* the questionsJson values: the arrays of up to MaxInput items, and a value that is no array
JsonInputs ==
    { Arr(v) : v \in UNION { [ 1..n -> Items ] : n \in 0..MaxInput } }
        \cup { [ t |-> "object", v |-> << >> ] }

\* the OriginalQuestion createCourse stores for the parsed question q under id qid
StoredQuestion(q, qid) ==
    [ id |-> qid, question |-> q.question.v, options |-> q.options.v,
      correct_option |-> q.correct_option.v, explanation |-> q.explanation.v ]

\* createCourse(name, questionsJson) with a free name; lastCall keeps the input, the stored
\* questions and the CourseCreationResult
CreateCourseFromJson(json) ==
    /\ ~CourseExists
    /\ LET parsed == parseQuestionsJson(json)
           n == Len(parsed.questions)
       IN  /\ questionStates' = [ i \in 1..n |-> InitialQuestionState(i) ]
           /\ courseStats' = [ id |-> "course", question_count |-> n, latent_count |-> n,
                               test_count |-> 0, learned_count |-> 0, master_count |-> 0 ]
           /\ lastCall' = Merge(CreateCall(FALSE),
                  [ json |-> json,
                    questions |-> [ i \in 1..n |-> StoredQuestion(parsed.questions[i], i) ],
                    returned |-> [ total_loaded |-> n,
                                   total_skipped |-> Len(parsed.errors),
                                   validation_errors |-> parsed.errors ] ])
    /\ Logs(1)
    /\ logs' = Pushed(<< CourseEvent("course_created") >>)
    /\ result' = NoResult
    /\ UNCHANGED << config, now, everHidden, streak, interactions >>

CreateNext == \E json \in JsonInputs : CreateCourseFromJson(json)

CreateSpec == Init /\ [][CreateNext]_vars

\* the positions of the valid items of the array v, and the position of the k-th of them
ValidPositions(v) == { i \in DOMAIN v : validateQuestion(v[i]).valid }

KthValid(v, k) ==
    CHOOSE i \in ValidPositions(v) : Cardinality({ j \in ValidPositions(v) : j < i }) = k - 1

\* C20: createCourse loads exactly the valid input questions, in input order, with ids
\* 1..total_loaded; total_loaded + total_skipped is the input length, with one validation
\* error per skipped question; every loaded question starts in Latent, not hidden, never
\* shown, not snoozed, all counters zero, was_demoted false; the stats start as
\* latent_count = question_count = total_loaded and the other pool counts 0.
C20_CreateLoadsValid ==
    (AfterCreate /\ ~lastCall.failed /\ lastCall.json.t = "array") =>
        LET v == lastCall.json.v
            r == lastCall.returned
            loaded == lastCall.questions
        IN  /\ r.total_loaded = Cardinality(ValidPositions(v))
            /\ r.total_loaded + r.total_skipped = Len(v)
            /\ Len(r.validation_errors) = r.total_skipped
            /\ { r.validation_errors[e].index + 1 : e \in DOMAIN r.validation_errors }
                  = (DOMAIN v) \ ValidPositions(v)
            /\ DOMAIN loaded = 1..r.total_loaded
            /\ DOMAIN questionStates = 1..r.total_loaded
            /\ \A k \in DOMAIN loaded :
                  /\ loaded[k].id = k
                  /\ loaded[k].question = v[KthValid(v, k)].question.v
                  /\ loaded[k].correct_option = v[KthValid(v, k)].correct_option.v
                  /\ loaded[k].explanation = v[KthValid(v, k)].explanation.v
                  /\ questionStates[k] =
                        [ question_id |-> k, pool |-> "latent", last_shown |-> Null,
                          snooze_until |-> Null, hidden |-> FALSE, notes |-> "",
                          consecutive_correct |-> 0,
                          consecutive_incorrect |-> 0, total_interactions |-> 0,
                          was_demoted |-> FALSE ]
            /\ courseStats.question_count = r.total_loaded
            /\ courseStats.latent_count = r.total_loaded
            /\ courseStats.test_count = 0
            /\ courseStats.learned_count = 0
            /\ courseStats.master_count = 0

\* a course created from [Q2, an invalid item, Q1]: Q2 is question 1 and Q1 question 2
C20_Witness ==
    /\ AfterCreate /\ ~lastCall.failed /\ lastCall.json.t = "array"
    /\ Len(lastCall.json.v) = 3
    /\ lastCall.returned.total_loaded = 2
    /\ lastCall.returned.total_skipped = 1
    /\ lastCall.returned.validation_errors[1].index = 1
    /\ lastCall.questions[1].question = "Q2"
    /\ lastCall.questions[2].question = "Q1"

----------------------------------------------------------------------------
(* DataLayer.parseQuestionsJson called on its own *)

\* the caller holds the value it is about to pass to parseQuestionsJson
ParseInit ==
    \E json \in JsonInputs :
        /\ questionStates = << >>
        /\ courseStats = NoStats
        /\ config = DEFAULT_CONFIG
        /\ now = 0
        /\ result = NoResult
        /\ nextLogId = 1
        /\ lastCall = [ op |-> "input", json |-> json ]
        /\ everHidden = {}
        /\ streak = NoStreak
        /\ logs = << >>
        /\ interactions = << >>

\* parseQuestionsJson(json); lastCall keeps the input and what is returned
ParseQuestionsJson ==
    /\ lastCall.op = "input"
    /\ lastCall' = [ op |-> "parseQuestionsJson", json |-> lastCall.json,
                     returned |-> parseQuestionsJson(lastCall.json) ]
    /\ UNCHANGED << questionStates, courseStats, config, now, result, nextLogId,
                    everHidden, streak, logs, interactions >>

ParseNext == ParseQuestionsJson

ParseSpec == ParseInit /\ [][ParseNext]_vars

AfterParse == lastCall.op = "parseQuestionsJson"

\* a well-formed question: text, at least two distinct options, the correct option among
\* them, an explanation
WellFormed(q) ==
    /\ q.t = "object"
    /\ q.question.t = "string" /\ q.question.v \notin { "", " " }
    /\ q.options.t = "array" /\ Len(q.options.v) >= 2
    /\ \A i, j \in DOMAIN q.options.v : i # j => q.options.v[i] # q.options.v[j]
    /\ q.correct_option.t = "string"
    /\ \E i \in DOMAIN q.options.v : q.options.v[i] = q.correct_option.v
    /\ q.explanation.t = "string"

\* a question object malformed in one of the ways the contract lists
Malformed(q) ==
    /\ q.t = "object"
    /\ \/ q.question.t = "string" /\ q.question.v \in { "", " " }
       \/ q.options.t = "array" /\ Len(q.options.v) < 2
       \/ q.options.t = "array"
            /\ \E i, j \in DOMAIN q.options.v : i # j /\ q.options.v[i] = q.options.v[j]
       \/ q.correct_option.t = "string" /\ q.options.t = "array"
            /\ \A i \in DOMAIN q.options.v : q.options.v[i] # q.correct_option.v
       \/ q.explanation.t = "undefined"

\* the array v without its i-th entry
Without(v, i) == SubSeq(v, 1, i - 1) \o SubSeq(v, i + 1, Len(v))

\* C21: on an array of N well-formed questions parseQuestionsJson returns the N questions
\* and no error; on an array whose entries are well-formed but for one malformed entry it
\* returns the other N-1 questions in their input order and exactly one error, whose index
\* is the (0-based) position of the malformed entry.
C21_ParseSkipsMalformed ==
    (AfterParse /\ lastCall.json.t = "array") =>
        LET v == lastCall.json.v
            r == lastCall.returned
        IN  /\ (\A i \in DOMAIN v : WellFormed(v[i])) =>
                    r.questions = v /\ r.errors = << >>
            /\ \A i \in DOMAIN v :
                  (Malformed(v[i]) /\ \A j \in (DOMAIN v) \ {i} : WellFormed(v[j])) =>
                      /\ r.questions = Without(v, i)
                      /\ Len(r.errors) = 1
                      /\ r.errors[1].index = i - 1

\* [Q1, a question with one option, Q2] parsed: Q1 and Q2 returned, one error with index 1
C21_Witness ==
    /\ AfterParse /\ lastCall.json.t = "array"
    /\ Len(lastCall.json.v) = 3
    /\ Malformed(lastCall.json.v[2])
    /\ Len(lastCall.json.v[2].options.v) = 1
    /\ WellFormed(lastCall.json.v[1]) /\ WellFormed(lastCall.json.v[3])
    /\ lastCall.json.v[1] # lastCall.json.v[3]
    /\ Len(lastCall.returned.questions) = 2
    /\ lastCall.returned.errors = << [ index |-> 1,
            reason |-> "Options must be an array with at least 2 items" ] >>

----------------------------------------------------------------------------
(* The records of a course over its life: created, studied, annotated,        *)
(* hidden from, reset and deleted                                            *)

\* FeedbackScreen.saveNotes on a question that has been answered:
\* updateNotes(courseId, questionId, notes), which is updateQuestionState with { notes }
UpdateNotes(questionId, notes) ==
    /\ questionId \in DOMAIN questionStates
    /\ questionStates[questionId].total_interactions > 0
    /\ questionStates[questionId].notes # notes
    /\ questionStates' = [ questionStates EXCEPT ![questionId] = Merge(@, [ notes |-> notes ]) ]
    /\ result' = NoResult
    /\ lastCall' = Other
    /\ UNCHANGED << courseStats, config, now, nextLogId, everHidden, streak, logs, interactions >>

CourseNext ==
    \/ \E n \in 1..NumQ : CreateCourse(n)
    \/ FindNextQuestion
    \/ NoQuestionsCountdown
    \/ \E a \in Options : ProcessAnswer(a)
    \/ \E q \in 1..NumQ : UpdateNotes(q, "note")
    \/ \E q \in 1..NumQ : HideQuestion(q)
    \/ ResetCourse
    \/ DeleteCourse

CourseSpec == Init /\ [][CourseNext]_vars

AfterReset == lastCall.op = "resetCourse"

\* C22: after resetCourse every question of the course is in Latent, never shown, not
\* snoozed, not hidden, without notes, with all counters zero and was_demoted false; the
\* interaction history of the course is empty and its event log holds no event recorded
\* before the reset (only the course_reset entry the call itself pushes).
C22_ResetClearsCourse ==
    AfterReset =>
        /\ \A i \in DOMAIN questionStates :
              /\ questionStates[i].question_id = i
              /\ questionStates[i].pool = "latent"
              /\ questionStates[i].consecutive_correct = 0
              /\ questionStates[i].consecutive_incorrect = 0
              /\ questionStates[i].total_interactions = 0
              /\ questionStates[i].last_shown = Null
              /\ questionStates[i].snooze_until = Null
              /\ questionStates[i].hidden = FALSE
              /\ questionStates[i].notes = ""
              /\ questionStates[i].was_demoted = FALSE
        /\ interactions = << >>
        /\ \A k \in DOMAIN logs :
              logs[k].id = nextLogId - 1 /\ logs[k].type = "course_reset"

\* a reset of a course that had an answered question, a question with notes, a hidden
\* question and no question left in Latent
C22_Witness ==
    /\ AfterReset
    /\ lastCall.answered /\ lastCall.noted /\ lastCall.hid
    /\ lastCall.latent0 = 0
    /\ Len(questionStates) = NumQ

AfterDelete == lastCall.op = "deleteCourse"

\* C23: after deleteCourse nothing of the course remains: listCourses does not list it,
\* getCourseStats fails for it, and there is no question, question state, interaction or
\* log entry of the course.
C23_DeleteRemovesAll ==
    AfterDelete =>
        /\ listCourses = << >>
        /\ ~CourseExists
        /\ questionStates = << >>
        /\ getAllQuestions(questionStates, "latent") = << >>
        /\ interactions = << >>
        /\ logs = << >>

\* the delete of a course that had questions in Test, an answered question and log entries
C23_Witness ==
    /\ AfterDelete
    /\ lastCall.existed
    /\ lastCall.test0 > 0
    /\ lastCall.answered
    /\ nextLogId > 3

AfterUpdate == lastCall.op = "updateConfig"

\* C24: updateConfig changes the configuration record only: every QuestionState, the
\* CourseStats, the interactions and the log are as before the call; the keys the partial
\* update does not name keep their values and the named ones take the new values; and the
\* next refill (on its own or in findNextQuestion) and the next processAnswer use the
\* configuration as it then is: the refill fills Test up to the current
\* test_pool_target_size, a correct answer in Test promotes exactly when the current
\* promotion_consecutive_correct is reached, and the snooze has the current duration.
C24_UpdateConfigOnly ==
    /\ AfterUpdate =>
          /\ lastCall.before = << questionStates, courseStats, logs, interactions, nextLogId >>
          /\ DOMAIN config = DOMAIN lastCall.config0
          /\ \A key \in DOMAIN config :
                config[key] = IF key \in DOMAIN lastCall.updates
                              THEN lastCall.updates[key] ELSE lastCall.config0[key]
    /\ AfterFindOrRefill =>
          NonHiddenIn(questionStates, "test") =
              IF lastCall.test0 >= config.test_pool_target_size
              THEN lastCall.test0
              ELSE Min(config.test_pool_target_size, lastCall.test0 + lastCall.latent0)
    /\ (AfterAnswer /\ lastCall.answer.correct /\ lastCall.state.pool = "test") =>
          /\ (lastCall.answer.newPool = "learned") <=>
                (lastCall.state.consecutive_correct + 1 >= config.promotion_consecutive_correct)
          /\ lastCall.answer.stateUpdates.snooze_until =
                lastCall.at + config.snooze_test_correct_minutes * 60 * 1000

\* the second partial update of a course with questions in Test, log entries and an
\* answered question: the keys of the first update keep their new values
C24_Witness ==
    /\ AfterUpdate
    /\ lastCall.config0 # DEFAULT_CONFIG
    /\ config.test_pool_target_size = 1
    /\ config.pool_weight_test = 0
    /\ NonHiddenIn(questionStates, "test") > 0
    /\ logs # << >>
    /\ interactions # << >>

\* after an update to promotion_consecutive_correct = 1, the first correct answer promotes
C24_UsedByAnswer ==
    /\ AfterAnswer
    /\ config.promotion_consecutive_correct = 1
    /\ lastCall.state.pool = "test" /\ lastCall.state.consecutive_correct = 0
    /\ lastCall.answer.newPool = "learned"

\* after an update to test_pool_target_size = 1, the refill promotes one of two questions
C24_UsedByRefill ==
    /\ AfterFindOrRefill
    /\ config.test_pool_target_size = 1
    /\ lastCall.latent0 = 2 /\ lastCall.test0 = 0
    /\ NonHiddenIn(questionStates, "test") = 1

----------------------------------------------------------------------------
(* updateQuestionStateWithPoolTransition called on its own, as a client of    *)
(* the data layer can call it; streak.log counts the calls                    *)

\* the (oldPool, newPool) pairs of the callers: the refill edge, the answer edges of Test and
\* Learned, and no change
Transitions ==
    { << "latent", "test" >>, << "test", "learned" >>, << "learned", "test" >>,
      << "test", "test" >> }

\* updateQuestionStateWithPoolTransition(courseId, questionId, { pool: newPool }, oldPool,
\* newPool); lastCall keeps the arguments and the states and stats at the start of the call
TransitionCall(questionId, oldPool, newPool) ==
    /\ Len(streak.log) < MaxStreak
    /\ LET w == updateQuestionStateWithPoolTransition(questionStates, courseStats, questionId,
                    [ pool |-> newPool ], oldPool, newPool)
       IN  /\ questionStates' = w.qs
           /\ courseStats' = w.stats
    /\ lastCall' = [ op |-> "updateQuestionStateWithPoolTransition",
                     questionId |-> questionId, oldPool |-> oldPool, newPool |-> newPool,
                     before |-> << questionStates, courseStats >> ]
    /\ streak' = [ streak EXCEPT !.log = Append(@, "call") ]
    /\ result' = NoResult
    /\ UNCHANGED << config, now, nextLogId, everHidden, logs, interactions >>

TransitionNext ==
    \/ \E n \in 1..NumQ : CreateCourse(n)
    \/ DeleteCourse
    \/ \E q \in 1..(NumQ + 1), t \in Transitions : TransitionCall(q, t[1], t[2])

TransitionSpec == Init /\ [][TransitionNext]_vars

AfterTransition == lastCall.op = "updateQuestionStateWithPoolTransition"

\* C25: updateQuestionStateWithPoolTransition adjusts the stats together with the state
\* write: with oldPool # newPool the count of oldPool goes down by 1 and the count of newPool
\* up by 1 exactly when the state record of the question is written in the call; when the
\* question or the course does not exist, or oldPool = newPool, the stats are unchanged.
C25_StatsWithStateWrite ==
    AfterTransition =>
        LET qs0 == lastCall.before[1]
            stats0 == lastCall.before[2]
            written == lastCall.questionId \in DOMAIN qs0
            moved == /\ stats0 # NoStats /\ courseStats # NoStats
                     /\ courseStats =
                          SetPoolCount(
                              SetPoolCount(stats0, lastCall.oldPool,
                                           PoolCount(stats0, lastCall.oldPool) - 1),
                              lastCall.newPool,
                              PoolCount(SetPoolCount(stats0, lastCall.oldPool,
                                            PoolCount(stats0, lastCall.oldPool) - 1),
                                        lastCall.newPool) + 1)
        IN  /\ written => questionStates[lastCall.questionId].pool = lastCall.newPool
            /\ (lastCall.oldPool # lastCall.newPool /\ written /\ stats0 # NoStats) => moved
            /\ (~written \/ stats0 = NoStats \/ lastCall.oldPool = lastCall.newPool) =>
                  courseStats = stats0

\* the part of C25 the code keeps: the counts move exactly when the pools differ and the
\* course exists, whether or not the question exists
C25_StatsFollowPoolsOnly ==
    AfterTransition =>
        LET stats0 == lastCall.before[2]
        IN  (courseStats # stats0) <=> (lastCall.oldPool # lastCall.newPool /\ stats0 # NoStats)

\* a call for a question id the course does not have, with different pools
C25_MissingQuestion ==
    /\ AfterTransition
    /\ lastCall.before[2] # NoStats
    /\ lastCall.questionId \notin DOMAIN lastCall.before[1]
    /\ lastCall.oldPool # lastCall.newPool
    /\ questionStates = lastCall.before[1]
    /\ courseStats # lastCall.before[2]

----------------------------------------------------------------------------
(* AppProvider.processAnswer step by step: each await of the function is a    *)
(* call of its own on the data layer, and the function can stop between two   *)
(* of them (the page is closed or reloaded, or an awaited call rejects).      *)
(* lastCall.step is the position of the function.                             *)

\* a course of two questions under test_pool_target_size = 1: the shown question s, and a
\* second one that waits in Latent while s is in Test and fills Test otherwise
StepInit ==
    \E s \in Stored :
        LET other == IF s.pool = "test" THEN "latent" ELSE "test"
            cfg == Merge(DEFAULT_CONFIG, [ test_pool_target_size |-> 1 ])
        IN  /\ questionStates = << s, Merge(InitialQuestionState(2), [ pool |-> other ]) >>
            /\ courseStats = SetPoolCount(
                    SetPoolCount([ id |-> "course", question_count |-> 2, latent_count |-> 0,
                                   test_count |-> 0, learned_count |-> 0, master_count |-> 0 ],
                                 s.pool, 1),
                    other, 1)
            /\ config = cfg
            /\ now = 0
            /\ result = QuestionResult([ strategy |-> "random", selected |-> s ])
            /\ nextLogId = 1
            /\ lastCall = Other
            /\ everHidden = {}
            /\ streak = NoStreak
            /\ logs = << >>
            /\ interactions = << >>

AtStep(step) == lastCall.op = "AppProvider.processAnswer" /\ lastCall.step = step

\* lines 161-163: Date.now(), getConfig(), processAnswerPure
StartAnswer(answer) ==
    /\ lastCall = Other
    /\ LET ar == processAnswerPure(result, answer, config, now)
       IN  lastCall' = [ op |-> "AppProvider.processAnswer",
                         step |-> IF ar.events = << >> THEN "write" ELSE "events",
                         selectedAnswer |-> answer, ar |-> ar, left |-> ar.events,
                         before |-> << questionStates, courseStats, logs, interactions,
                                       nextLogId >> ]
    /\ UNCHANGED << questionStates, courseStats, config, now, result, nextLogId, everHidden,
                    streak, logs, interactions >>

\* lines 166-168: await logEvent for the next promotion or demotion event
LogEventStep ==
    /\ AtStep("events")
    /\ logs' = Pushed(<< Head(lastCall.left) >>)
    /\ nextLogId' = nextLogId + 1
    /\ lastCall' = [ lastCall EXCEPT !.left = Tail(@),
                         !.step = IF Tail(lastCall.left) = << >> THEN "write" ELSE "events" ]
    /\ UNCHANGED << questionStates, courseStats, config, now, result, everHidden, streak,
                    interactions >>

\* lines 170-176: await updateQuestionStateWithPoolTransition
WriteStateStep ==
    /\ AtStep("write")
    /\ LET ar == lastCall.ar
           w == updateQuestionStateWithPoolTransition(questionStates, courseStats,
                    result.state.question_id, ar.stateUpdates, ar.oldPool, ar.newPool)
       IN  /\ questionStates' = w.qs
           /\ courseStats' = w.stats
    /\ lastCall' = [ lastCall EXCEPT !.step = "interaction" ]
    /\ UNCHANGED << config, now, result, nextLogId, everHidden, streak, logs, interactions >>

\* lines 178-186: await recordInteraction
RecordInteractionStep ==
    /\ AtStep("interaction")
    /\ interactions' = Append(interactions,
            Interaction(result.state.question_id, lastCall.selectedAnswer, lastCall.ar.correct,
                        result.strategy, lastCall.ar.oldPool))
    /\ lastCall' = [ lastCall EXCEPT !.step = "user_interaction" ]
    /\ UNCHANGED << questionStates, courseStats, config, now, result, nextLogId, everHidden,
                    streak, logs >>

\* lines 187-196: await logEvent(user_interaction), then updateLastAccessed (metadata)
LogUserInteractionStep ==
    /\ AtStep("user_interaction")
    /\ logs' = Pushed(<< QuestionEvent("user_interaction", result.state.question_id) >>)
    /\ nextLogId' = nextLogId + 1
    /\ lastCall' = [ lastCall EXCEPT
                         !.step = IF lastCall.ar.needsTestPoolRefill THEN "refill" ELSE "done" ]
    /\ UNCHANGED << questionStates, courseStats, config, now, result, everHidden, streak,
                    interactions >>

\* lines 198-200: await refillTestPoolFromLatent
RefillStep ==
    /\ AtStep("refill")
    /\ LET r == refillTestPoolFromLatent(questionStates, courseStats, config)
       IN  /\ questionStates' = r.qs
           /\ courseStats' = r.stats
           /\ logs' = Pushed(RefillEvents(questionStates, r.qs))
           /\ nextLogId' = nextLogId + r.promoted
    /\ lastCall' = [ lastCall EXCEPT !.step = "done" ]
    /\ UNCHANGED << config, now, result, everHidden, streak, interactions >>

\* the function never resumes from the await it is at
Abandon ==
    /\ lastCall.op = "AppProvider.processAnswer"
    /\ lastCall.step \notin { "done", "abandoned" }
    /\ lastCall' = [ lastCall EXCEPT !.step = "abandoned" ]
    /\ UNCHANGED << questionStates, courseStats, config, now, result, nextLogId, everHidden,
                    streak, logs, interactions >>

StepNext ==
    \/ \E a \in Options : StartAnswer(a)
    \/ LogEventStep
    \/ WriteStateStep
    \/ RecordInteractionStep
    \/ LogUserInteractionStep
    \/ RefillStep
    \/ Abandon

StepSpec == StepInit /\ [][StepNext]_vars

\* the stored data: states, stats, log, interactions and the next log id
StoredData == << questionStates, courseStats, logs, interactions, nextLogId >>

\* the stored data after the whole sequence of the call lastCall describes
AllEffects ==
    LET ar == lastCall.ar
        qid == result.state.question_id
        w == updateQuestionStateWithPoolTransition(lastCall.before[1], lastCall.before[2],
                 qid, ar.stateUpdates, ar.oldPool, ar.newPool)
        r == IF ar.needsTestPoolRefill
             THEN refillTestPoolFromLatent(w.qs, w.stats, config)
             ELSE [ qs |-> w.qs, stats |-> w.stats, promoted |-> 0 ]
        events == ar.events \o << QuestionEvent("user_interaction", qid) >>
                      \o RefillEvents(w.qs, r.qs)
    IN  << r.qs, r.stats,
           lastCall.before[3] \o
               [ i \in DOMAIN events |-> LogEntry(lastCall.before[5] + i - 1, events[i]) ],
           Append(lastCall.before[4],
                  Interaction(qid, lastCall.selectedAnswer, ar.correct, result.strategy,
                              ar.oldPool)),
           lastCall.before[5] + Len(events) >>

\* C26: answer processing never persists partially: when the sequence of processAnswer is
\* abandoned after any of its steps, the stored data shows all of its effects or none, and a
\* promotion or demotion event of an answer is never in the log without the pool change in
\* the question state.
C26_AllOrNothing ==
    /\ AtStep("abandoned") =>
          (StoredData = lastCall.before \/ StoredData = AllEffects)
    /\ (AtStep("abandoned") \/ AtStep("done")) =>
          \A k \in DOMAIN logs :
              (logs[k].type \in { "promotion", "demotion" } /\ logs[k].from # "latent") =>
                  questionStates[logs[k].question_id].pool = logs[k].to

\* what the code keeps: a call that runs to its end leaves all of its effects
C26_CompleteWhenDone ==
    AtStep("done") => StoredData = AllEffects

\* abandoned right after the promotion event was logged: the event is in the log and the
\* question is still in Test
C26_EventWithoutPoolChange ==
    /\ AtStep("abandoned")
    /\ questionStates = lastCall.before[1]
    /\ \E k \in DOMAIN logs :
          /\ logs[k].type = "promotion" /\ logs[k].from = "test"
          /\ questionStates[logs[k].question_id].pool = "test"

----------------------------------------------------------------------------
(* The effects of findNextQuestion on the stored data, checked under Spec *)

\* the questions whose stored state a step changes
Changed == { i \in DOMAIN questionStates :
                i \notin DOMAIN questionStates' \/ questionStates'[i] # questionStates[i] }

\* C27: the only effects of findNextQuestion on the stored data are those of the refill:
\* the states it changes are non-hidden Latent questions whose pool becomes Test and nothing
\* else, the stats move by that many from latent_count to test_count, the log gains one
\* promotion latent -> test entry per moved question, and interactions, configuration and
\* clock are untouched; the state of a returned question is stored exactly as returned (no
\* last_shown, snooze_until or counter is written for it).
C27_FindOnlyRefills ==
    [][ (lastCall'.op = "findNextQuestion") =>
          /\ DOMAIN questionStates' = DOMAIN questionStates
          /\ \A i \in Changed :
                /\ questionStates[i].pool = "latent" /\ ~questionStates[i].hidden
                /\ questionStates'[i] = [ questionStates[i] EXCEPT !.pool = "test" ]
          /\ courseStats' =
                IF Changed = {} THEN courseStats
                ELSE [ courseStats EXCEPT !.latent_count = @ - Cardinality(Changed),
                                          !.test_count = @ + Cardinality(Changed) ]
          /\ Len(logs') = Len(logs) + Cardinality(Changed)
          /\ SubSeq(logs', 1, Len(logs)) = logs
          /\ { logs'[k].question_id : k \in (Len(logs) + 1)..Len(logs') } = Changed
          /\ \A k \in (Len(logs) + 1)..Len(logs') :
                /\ logs'[k].type = "promotion"
                /\ logs'[k].from = "latent" /\ logs'[k].to = "test"
          /\ nextLogId' = nextLogId + Cardinality(Changed)
          /\ interactions' = interactions
          /\ config' = config
          /\ now' = now
          /\ result'.kind = "question" =>
                questionStates'[result'.state.question_id] = result'.state
      ]_vars

\* findNextQuestion has just refilled Test from Latent and returned a question: its stored
\* state is the returned one, with no last_shown, no snooze_until and no interaction
C27_Witness ==
    /\ AfterFind
    /\ lastCall.latent0 > 0
    /\ NonHiddenIn(questionStates, "test") > lastCall.test0
    /\ result.kind = "question"
    /\ questionStates[result.state.question_id] = result.state
    /\ result.state.last_shown = Null
    /\ result.state.snooze_until = Null
    /\ result.state.total_interactions = 0

----------------------------------------------------------------------------
(* findNextQuestion on a course that has been studied for two hours, with the *)
(* injectable random source of the store returning k1/RandDen, k2/RandDen and *)
(* k3/RandDen in turn                                                         *)

\* a question answered at the given minute and left in the pool, with the snooze the
\* default configuration gave it
Studied(qid, pool, minute, wd) ==
    Merge(InitialQuestionState(qid),
          [ pool                |-> pool,
            last_shown          |-> minute * 60000,
            snooze_until        |-> minute * 60000 +
                                      (IF wd THEN 1 ELSE IF pool = "master" THEN 60 ELSE 5)
                                        * 60000,
            consecutive_correct |-> IF pool = "test" /\ ~wd THEN 1 ELSE 0,
            total_interactions  |-> 1 + 2 * PoolRank(pool) + (IF wd THEN 2 ELSE 0),
            was_demoted         |-> wd ])

\* the states question qid can be in after two hours: promoted to Test and never shown,
\* answered correctly in Test at minute 0 or a minute ago (still snoozed), demoted to Test
\* at minute 0 or 1, promoted to Learned or to Master at minute 0
SchedStates(qid) ==
    << Merge(InitialQuestionState(qid), [ pool |-> "test" ]),
       Studied(qid, "test", 0, FALSE),
       Studied(qid, "test", 119, FALSE),
       Studied(qid, "test", 0, TRUE),
       Studied(qid, "test", 1, TRUE),
       Studied(qid, "learned", 0, FALSE),
       Studied(qid, "master", 0, FALSE) >>

\* the questions of the studied course
SchedIds == 1..(NumQ + 1)

\* the configurations of the scheduler: the default one, where every pool carries the
\* penalty, and one with a low penalty threshold that gives Test no weight and favours
\* Master
SchedConfigs ==
    { DEFAULT_CONFIG,
      Merge(DEFAULT_CONFIG,
            [ pool_penalty_threshold |-> 2, pool_weight_test |-> 0,
              pool_weight_learned |-> 1, pool_weight_master |-> 2 ]) }

SchedInit ==
    \E pick \in [ SchedIds -> DOMAIN SchedStates(1) ], cfg \in SchedConfigs :
      LET qs == [ q \in SchedIds |-> SchedStates(q)[pick[q]] ]
      IN
        /\ questionStates = qs
        /\ courseStats = [ id |-> "course",
                           question_count |-> Len(qs),
                           latent_count |-> 0,
                           test_count |-> Len(getAllQuestions(qs, "test")),
                           learned_count |-> Len(getAllQuestions(qs, "learned")),
                           master_count |-> Len(getAllQuestions(qs, "master")) ]
        /\ config = cfg
        /\ now = 120 * 60000
        /\ result = NoResult
        /\ nextLogId = 1
        /\ lastCall = Other
        /\ everHidden = {}
        /\ streak = NoStreak
        /\ logs = << >>
        /\ interactions = << >>

\* findNextQuestion(courseId) with random() returning k1/RandDen (pool), k2/RandDen
\* (strategy) and k3/RandDen (index); lastCall keeps the draws, the weights and the chosen pool.
\* random() is not called when no pool has an available question (line 379), and a third
\* time only for the random pick (lines 423-425): a draw not taken is recorded as 0
FindNextQuestionDrawing ==
    LET r == refillTestPoolFromLatent(questionStates, courseStats, config)
        poolData == PoolData(r.qs, config, now)
        weights == [ i \in DOMAIN poolData |->
                       [ pool |-> poolData[i].pool, weight |-> poolData[i].weight ] ]
    IN  /\ result = NoResult
        /\ Logs(r.promoted)
        /\ logs' = Pushed(RefillEvents(questionStates, r.qs))
        /\ questionStates' = r.qs
        /\ courseStats' = r.stats
        /\ IF Len(poolData) = 0
           THEN /\ result' = NullResult
                /\ lastCall' = Merge(Call("findNextQuestion"),
                                     [ draws |-> << 0, 0, 0 >>, weights |-> weights,
                                       chosen |-> "none" ])
           ELSE \E k1 \in Draws :
                  LET chosen == ChoosePool(poolData, k1)
                  IN  \E k2 \in Draws, k3 \in Draws :
                        LET sel == SelectQuestion(chosen.available, config, k2, k3)
                        IN  /\ sel.strategy # "random" => k3 = 0
                            /\ result' = QuestionResult(sel)
                            /\ lastCall' = Merge(Call("findNextQuestion"),
                                                 [ draws |-> << k1, k2, k3 >>,
                                                   weights |-> weights,
                                                   chosen |-> chosen.pool ])
        /\ UNCHANGED << config, now, everHidden, streak, interactions >>

SchedNext == FindNextQuestionDrawing

SchedSpec == SchedInit /\ [][SchedNext]_vars

\* the available questions of the chosen pool, as a set
ChosenAvailable ==
    { s \in Range(questionStates) : s.pool = lastCall.chosen /\ IsAvailable(s, now) }

OldestDraw ==
    /\ AfterFind /\ result.kind = "question"
    /\ lastCall.draws[2] * 100 < config.strategy_oldest_pct * RandDen

\* C28: with the 'oldest' strategy findNextQuestion returns an available question of the
\* chosen pool with the smallest last_shown, null (never shown) counting as smaller than any
\* timestamp: when the chosen pool has an available never-shown question, the returned
\* question is a never-shown one.
C28_OldestPrefersNeverShown ==
    OldestDraw =>
        /\ result.strategy = "oldest"
        /\ result.state \in ChosenAvailable
        /\ \A s \in ChosenAvailable :
              \/ result.state.last_shown = Null
              \/ (s.last_shown # Null /\ result.state.last_shown <= s.last_shown)
        /\ (\E s \in ChosenAvailable : s.last_shown = Null) => result.state.last_shown = Null

\* what the code does with the 'oldest' strategy: among the available questions of the
\* chosen pool that have been shown it returns one with the smallest last_shown, and a
\* never-shown question only when none has been shown
C28_OldestAmongShown ==
    OldestDraw =>
        /\ result.strategy = "oldest"
        /\ result.state \in ChosenAvailable
        /\ \A s \in ChosenAvailable :
              s.last_shown # Null =>
                  (result.state.last_shown # Null /\ result.state.last_shown <= s.last_shown)

\* the 'oldest' strategy returns a question shown before while a never-shown question of
\* the chosen pool is available
C28_ShownPreferred ==
    /\ OldestDraw
    /\ result.state.last_shown # Null
    /\ \E s \in ChosenAvailable : s.last_shown = Null

RecoveryDraw ==
    /\ AfterFind /\ result.kind = "question"
    /\ ~ (lastCall.draws[2] * 100 < config.strategy_oldest_pct * RandDen)
    /\ lastCall.draws[2] * 100 < (config.strategy_oldest_pct + config.strategy_demoted_pct) * RandDen

\* the available questions of the chosen pool that were demoted
ChosenDemoted == { s \in ChosenAvailable : s.was_demoted }

\* the pick the index draw makes among all available questions of the chosen pool
IndexPick ==
    LET available == getAvailableQuestions(questionStates, lastCall.chosen, now)
    IN  available[((lastCall.draws[3] * Len(available)) \div RandDen) + 1]

\* C29: with the recovery draw findNextQuestion returns the available was_demoted question
\* of the chosen pool with the oldest last_shown and reports 'recovery'; when the chosen
\* pool has no available was_demoted question it returns the question the index draw picks
\* among all available ones and reports 'random'.  A result reported as 'recovery' has
\* was_demoted = TRUE, and the reported strategy is the one that produced the pick.
C29_RecoveryOrRandom ==
    /\ RecoveryDraw =>
          IF ChosenDemoted # {}
          THEN /\ result.strategy = "recovery"
               /\ result.state \in ChosenDemoted
               /\ \A s \in ChosenDemoted :
                     /\ s.last_shown # Null
                     /\ result.state.last_shown <= s.last_shown
          ELSE /\ result.strategy = "random"
               /\ result.state = IndexPick
    /\ (AfterFind /\ result.kind = "question") =>
          /\ result.strategy = "recovery" => (RecoveryDraw /\ result.state.was_demoted)
          /\ result.strategy = "oldest" <=> OldestDraw
          /\ result.strategy = "random" => result.state = IndexPick
          /\ result.strategy \in { "oldest", "recovery", "random" }

\* a recovery draw returned the older of two demoted questions while a question that was
\* not demoted and was shown no later is available in the same pool
C29_Witness ==
    /\ RecoveryDraw
    /\ result.strategy = "recovery"
    /\ \E s \in ChosenDemoted : s.last_shown > result.state.last_shown
    /\ \E s \in ChosenAvailable :
          ~ s.was_demoted /\ s.last_shown # Null /\ s.last_shown <= result.state.last_shown

\* a recovery draw on a pool without demoted questions fell back to the random pick among
\* several available questions
C29_Fallback ==
    /\ RecoveryDraw
    /\ ChosenDemoted = {}
    /\ result.strategy = "random"
    /\ Cardinality(ChosenAvailable) > 1
    /\ lastCall.draws[3] > 0

\* the number of available questions of a pool
AvailableCount(pool) ==
    Cardinality({ s \in Range(questionStates) : s.pool = pool /\ IsAvailable(s, now) })

\* the weight the roulette gives the i-th pool, in units of 1 / pool_penalty_threshold
\* (the threshold of every configuration here is positive):
\* none for a pool without available questions, the base weight for n at or above the
\* threshold, base weight x n / threshold below it
RouletteWeight(i) ==
    LET n == AvailableCount(SchedPools[i])
        base == BaseWeight(config, SchedPools[i])
    IN  IF n = 0 THEN 0
        ELSE IF n >= config.pool_penalty_threshold THEN base * config.pool_penalty_threshold
        ELSE base * n

\* the cumulative weight of the first i pools in the order Test, Learned, Master
RECURSIVE Cumulative(_)
Cumulative(i) == IF i = 0 THEN 0 ELSE Cumulative(i - 1) + RouletteWeight(i)

\* the draw r = draws[1] / RandDen x totalWeight lies below the cumulative weight of pool i
Exceeds(i) == Cumulative(i) * RandDen > lastCall.draws[1] * Cumulative(3)

\* C30: the pool is chosen by cumulative-weight roulette over the pools with available
\* questions in the order Test, Learned, Master: a pool with n > 0 available questions
\* weighs baseWeight for n >= pool_penalty_threshold and baseWeight x n /
\* pool_penalty_threshold otherwise, and for a draw r in [0, totalWeight) the chosen pool is
\* the first whose cumulative weight exceeds r.
C30_CumulativeRoulette ==
    (AfterFind /\ result.kind = "question") =>
        /\ result.state.pool = lastCall.chosen
        /\ \A i \in DOMAIN lastCall.weights :
              \E j \in 1..3 :
                  /\ SchedPools[j] = lastCall.weights[i].pool
                  /\ AvailableCount(SchedPools[j]) > 0
                  /\ lastCall.weights[i].weight = RouletteWeight(j)
        /\ Cumulative(3) > 0 =>
              \E i \in 1..3 :
                  /\ SchedPools[i] = lastCall.chosen
                  /\ AvailableCount(SchedPools[i]) > 0
                  /\ Exceeds(i)
                  /\ \A j \in 1..(i - 1) : AvailableCount(SchedPools[j]) > 0 => ~ Exceeds(j)

\* all three pools have an available question and the draw passed Test and Learned
C30_Witness ==
    /\ AfterFind /\ result.kind = "question"
    /\ \A i \in 1..3 : AvailableCount(SchedPools[i]) > 0
    /\ lastCall.chosen = "master"

\* the draw passed a pool that carries the penalty and chose one that does not
C30_PenaltyApplied ==
    /\ AfterFind /\ result.kind = "question"
    /\ AvailableCount(lastCall.chosen) >= config.pool_penalty_threshold
    /\ \E j \in 1..3 :
          /\ AvailableCount(SchedPools[j]) > 0
          /\ AvailableCount(SchedPools[j]) < config.pool_penalty_threshold
          /\ BaseWeight(config, SchedPools[j]) > 0
          /\ ~ Exceeds(j)
          /\ SchedPools[j] # lastCall.chosen

\* the draw fell exactly on the cumulative weight of a pool, which was passed
C30_OnBoundary ==
    /\ AfterFind /\ result.kind = "question"
    /\ \E j \in 1..3 :
          /\ AvailableCount(SchedPools[j]) > 0
          /\ Cumulative(j) * RandDen = lastCall.draws[1] * Cumulative(3)
          /\ SchedPools[j] # lastCall.chosen

----------------------------------------------------------------------------
(* Properties of the stored course, checked under Spec *)

\* C31: the question findNextQuestion returns is an available question (not hidden, not
\* snoozed) of Test, Learned or Master as the pools stand after the refill step; its
\* snapshot never has pool = "latent", and the pool it was drawn from has an available
\* question, for every draw and every configuration of weights.
C31_ReturnedFromAvailable ==
    ReturnedQuestion =>
        /\ result.state.pool \in { "test", "learned", "master" }
        /\ result.state.pool # "latent"
        /\ \E i \in DOMAIN questionStates :
              /\ questionStates[i] = result.state
              /\ ~ questionStates[i].hidden
              /\ questionStates[i].snooze_until = Null \/ questionStates[i].snooze_until <= now
        /\ { i \in DOMAIN questionStates :
                 /\ questionStates[i].pool = result.state.pool
                 /\ ~ questionStates[i].hidden
                 /\ questionStates[i].snooze_until = Null \/ questionStates[i].snooze_until <= now }
              # {}

\* a Test question was returned while a non-hidden question waits in Latent
C31_Witness ==
    /\ ReturnedQuestion
    /\ \E i \in DOMAIN questionStates :
          questionStates[i].pool = "latent" /\ ~ questionStates[i].hidden

\* a question was returned while another pool holds only a snoozed question
C31_OtherPoolSnoozed ==
    /\ ReturnedQuestion
    /\ \E i \in DOMAIN questionStates :
          /\ questionStates[i].pool \in { "test", "learned", "master" }
          /\ questionStates[i].pool # result.state.pool
          /\ ~ questionStates[i].hidden
          /\ Snoozed(questionStates[i])

\* the non-hidden questions of a pool, by id, before a step
IdsIn(pool) ==
    { i \in DOMAIN questionStates :
          questionStates[i].pool = pool /\ ~ questionStates[i].hidden }

\* the questions whose stored state a step changes
Moved ==
    { i \in (DOMAIN questionStates) \cap (DOMAIN questionStates') :
          questionStates'[i] # questionStates[i] }

\* the number of questions a refill is due to promote
DueCount ==
    IF Cardinality(IdsIn("test")) < config.test_pool_target_size
    THEN Min(Cardinality(IdsIn("latent")),
             config.test_pool_target_size - Cardinality(IdsIn("test")))
    ELSE 0

\* a refill step: it promotes DueCount questions, the non-hidden Latent ones of the
\* smallest ids, changes only their pool and returns their number
RefillPromotesDue ==
    /\ DOMAIN questionStates' = DOMAIN questionStates
    /\ Cardinality(Moved) = DueCount
    /\ Moved \subseteq IdsIn("latent")
    /\ \A i \in Moved : questionStates'[i] = [ questionStates[i] EXCEPT !.pool = "test" ]
    /\ \A i \in Moved : \A j \in IdsIn("latent") \ Moved : i < j
    /\ lastCall'.op = "refillTestPoolFromLatent" => lastCall'.returned = DueCount

\* C32: the refill step promotes exactly min(non-hidden Latent count, test_pool_target_size
\* - non-hidden Test count) questions when Test is below the target and none otherwise;
\* the promoted ones are the non-hidden Latent questions of the smallest ids; only their
\* pool field changes, no hidden question is promoted, the number promoted is returned,
\* and a refill right after a refill promotes 0.
C32_RefillExact ==
    [][ /\ lastCall'.op \in { "refillTestPoolFromLatent", "findNextQuestion" }
            => RefillPromotesDue
        /\ (lastCall.op = "refillTestPoolFromLatent"
              /\ lastCall'.op = "refillTestPoolFromLatent")
            => (lastCall'.returned = 0 /\ questionStates' = questionStates) ]_vars

\* a refill promoted the second question past a hidden Latent question of a smaller id
C32_Witness ==
    /\ lastCall.op = "refillTestPoolFromLatent"
    /\ lastCall.returned = 1
    /\ \E i \in DOMAIN questionStates, j \in DOMAIN questionStates :
          /\ i < j
          /\ questionStates[i].pool = "latent" /\ questionStates[i].hidden
          /\ questionStates[j].pool = "test" /\ questionStates[j].total_interactions = 0

\* a refill promoted one question and left a non-hidden one of a larger id in Latent
C32_LowestFirst ==
    /\ lastCall.op = "refillTestPoolFromLatent"
    /\ lastCall.returned = 1
    /\ \E i \in DOMAIN questionStates :
          questionStates[i].pool = "latent" /\ ~ questionStates[i].hidden

\* a refill ran right after a refill that promoted
C32_SecondRefill ==
    /\ lastCall.op = "refillTestPoolFromLatent"
    /\ lastCall.returned = 0
    /\ lastCall.latent0 > 0
    /\ \E i \in DOMAIN questionStates :
          questionStates[i].pool = "test" /\ questionStates[i].total_interactions = 0

----------------------------------------------------------------------------
(* A study session on a course that has been studied for two hours: the       *)
(* scheduler, the answers, hideQuestion and resetCourse, under a fixed        *)
(* configuration                                                              *)

\* the states question qid can be in after two hours: the first question still in Latent,
\* in one of the states of a studied question, or demoted from Master and answered
\* correctly in Learned at minute 0; the others in Latent, promoted to Test and never shown,
\* or promoted to Learned at minute 0
SessionStates(qid) ==
    IF qid = 1
    THEN << InitialQuestionState(qid) >> \o SchedStates(qid)
           \o << Merge(Studied(qid, "learned", 0, TRUE),
                       [ snooze_until |-> 60 * 60000, consecutive_correct |-> 1,
                         total_interactions |-> 6 ]) >>
    ELSE << InitialQuestionState(qid),
            Merge(InitialQuestionState(qid), [ pool |-> "test" ]),
            Studied(qid, "learned", 0, FALSE) >>

\* the fixed configurations of a session: the default one, one with a Test pool of one
\* question, and one that promotes on the third correct answer in a row and demotes on the
\* second incorrect one
SessionConfigs ==
    { DEFAULT_CONFIG,
      Merge(DEFAULT_CONFIG, [ test_pool_target_size |-> 1 ]),
      Merge(DEFAULT_CONFIG, [ promotion_consecutive_correct |-> 3,
                              demotion_incorrect_count |-> 2 ]) }

SessionInit ==
    \E pick \in [ 1..NumQ -> DOMAIN SessionStates(1) ], cfg \in SessionConfigs :
      LET qs == [ q \in 1..NumQ |-> SessionStates(q)[pick[q]] ]
      IN
        /\ \A q \in 1..NumQ : pick[q] \in DOMAIN SessionStates(q)
        /\ questionStates = qs
        /\ courseStats = [ id |-> "course",
                           question_count |-> Len(qs),
                           latent_count |-> Len(getAllQuestions(qs, "latent")),
                           test_count |-> Len(getAllQuestions(qs, "test")),
                           learned_count |-> Len(getAllQuestions(qs, "learned")),
                           master_count |-> Len(getAllQuestions(qs, "master")) ]
        /\ config = cfg
        /\ now = 120 * 60000
        /\ result = NoResult
        /\ nextLogId = 1
        /\ lastCall = Other
        /\ everHidden = {}
        /\ streak = NoStreak
        /\ logs = << >>
        /\ interactions = << >>

\* an answer of the session: the learner gives at most MaxAnswers answers
SessionAnswer(answer) ==
    /\ Len(interactions) < MaxAnswers
    /\ ProcessAnswer(answer)

\* the FeedbackScreen's hide button, on a question that is not hidden yet
SessionHide(questionId) ==
    /\ questionId \in DOMAIN questionStates
    /\ ~ questionStates[questionId].hidden
    /\ HideQuestion(questionId)

SessionNext ==
    \/ FindNextQuestion
    \/ NoQuestionsCountdown
    \/ Refill
    \/ \E a \in Options : SessionAnswer(a)
    \/ \E q \in 1..NumQ : SessionHide(q)
    \/ ResetCourse

SessionSpec == SessionInit /\ [][SessionNext]_vars

\* the question a processAnswer step answers, and whether the answer is correct
AnswerStepOn(i, correct) ==
    /\ lastCall'.op = "processAnswer"
    /\ lastCall'.state.question_id = i
    /\ lastCall'.answer.correct = correct

\* the pool change of question i in a step follows an allowed edge
AllowedEdge(i) ==
    LET from == questionStates[i].pool
        to == questionStates'[i].pool
    IN  \/ from = to
        \/ lastCall'.op = "resetCourse" /\ to = "latent"
        \/ /\ from = "latent" /\ to = "test"
           /\ lastCall'.op \in { "findNextQuestion", "refillTestPoolFromLatent",
                                 "hideQuestion", "processAnswer" }
           /\ ~ questionStates[i].hidden
           /\ lastCall'.op = "processAnswer" => lastCall'.state.question_id # i
        \/ /\ << from, to >> \in { << "test", "learned" >>, << "learned", "master" >> }
           /\ AnswerStepOn(i, TRUE)
        \/ /\ << from, to >> \in { << "master", "learned" >>, << "learned", "test" >> }
           /\ AnswerStepOn(i, FALSE)

C33_IntoMaster ==
    /\ lastCall.op = "processAnswer"
    /\ lastCall.state.pool = "learned"
    /\ questionStates[lastCall.state.question_id].pool = "master"

\* a studied question is back in Latent after resetCourse
C33_BackToLatent ==
    /\ lastCall.op = "resetCourse"
    /\ lastCall.answered
    /\ \A i \in DOMAIN questionStates : questionStates[i].pool = "latent"

C34_MissInMaster ==
    /\ lastCall.op = "processAnswer"
    /\ lastCall.state.pool = "master"
    /\ ~ lastCall.answer.correct
    /\ questionStates[lastCall.state.question_id].pool = "master"

\* C35: under a fixed configuration with promotion_consecutive_correct >= 1 and
\* demotion_incorrect_count >= 1, in every state reachable through refill and persisted
\* answers both consecutive counters are >= 0 and at most one of them is non-zero, every
\* question in Test or Learned has consecutive_correct < promotion_consecutive_correct, and
\* every question in Learned or Master has consecutive_incorrect < demotion_incorrect_count.
C35_CountersBounded ==
    (config.promotion_consecutive_correct >= 1 /\ config.demotion_incorrect_count >= 1) =>
        \A i \in DOMAIN questionStates :
            LET s == questionStates[i]
            IN  /\ s.consecutive_correct >= 0
                /\ s.consecutive_incorrect >= 0
                /\ s.consecutive_correct = 0 \/ s.consecutive_incorrect = 0
                /\ s.pool \in { "test", "learned" } =>
                      s.consecutive_correct < config.promotion_consecutive_correct
                /\ s.pool \in { "learned", "master" } =>
                      s.consecutive_incorrect < config.demotion_incorrect_count

\* an incorrect answer left a Learned question, answered correctly before, one short of the
\* demotion threshold
C35_Witness ==
    /\ lastCall.op = "processAnswer"
    /\ ~ lastCall.answer.correct
    /\ lastCall.state.pool = "learned"
    /\ lastCall.state.consecutive_correct > 0
    /\ questionStates[lastCall.state.question_id].pool = "learned"
    /\ questionStates[lastCall.state.question_id].consecutive_incorrect
          = config.demotion_incorrect_count - 1

\* a correct answer left a Test question one short of the promotion threshold, above 1
C35_NearPromotion ==
    /\ lastCall.op = "processAnswer"
    /\ lastCall.answer.correct
    /\ questionStates[lastCall.state.question_id].pool = "test"
    /\ questionStates[lastCall.state.question_id].consecutive_correct
          = config.promotion_consecutive_correct - 1
    /\ questionStates[lastCall.state.question_id].consecutive_correct > 1

\* the four pool counts of the course statistics add up to question_count
CountsAddUp ==
    courseStats.latent_count + courseStats.test_count + courseStats.learned_count
        + courseStats.master_count = courseStats.question_count

\* C36: in every reachable state of a course latent_count + test_count + learned_count +
\* master_count = question_count, and none of the five counts is negative.
C36_CountsConsistent ==
    CourseExists =>
        /\ CountsAddUp
        /\ courseStats.latent_count >= 0
        /\ courseStats.test_count >= 0
        /\ courseStats.learned_count >= 0
        /\ courseStats.master_count >= 0
        /\ courseStats.question_count >= 0

\* the part of C36 that every operation keeps: the counts add up
C36_SumKept == CourseExists => CountsAddUp

\* a pool changed in a step and the counts still add up
C36_SumWitness ==
    /\ lastCall.op = "processAnswer"
    /\ lastCall.state.pool # questionStates[lastCall.state.question_id].pool
    /\ CountsAddUp
    /\ courseStats.question_count = NumQ

----------------------------------------------------------------------------

(* The study screen of a new course: StudyScreen holds the scheduling result it loaded until
   the feedback screen replaces it, and both its submit button and a double click on an
   option call processAnswer on that result *)

StudyInit ==
    \E cfg \in SessionConfigs :
        /\ questionStates = [ i \in 1..NumQ |-> InitialQuestionState(i) ]
        /\ courseStats = [ id |-> "course", question_count |-> NumQ, latent_count |-> NumQ,
                           test_count |-> 0, learned_count |-> 0, master_count |-> 0 ]
        /\ config = cfg
        /\ now = 60000
        /\ result = NoResult
        /\ nextLogId = 1
        /\ lastCall = Other
        /\ everHidden = {}
        /\ streak = NoStreak
        /\ logs = << >>
        /\ interactions = << >>

\* loadNext, run when StudyScreen is mounted
StudyLoadNext ==
    /\ result.kind # "question"
    /\ FindNextQuestion

\* handleSubmit or handleDoubleClick up to the return of processAnswer: the screen still
\* shows the question and holds its scheduling result
StudySubmit(answer) ==
    /\ Len(interactions) < MaxSubmits
    /\ ProcessAnswerCall(answer)
    /\ UNCHANGED result

\* setScreen({ type: "feedback", ... }) of a handler takes effect: StudyScreen is unmounted
StudyFeedback ==
    /\ lastCall.op = "processAnswer"
    /\ result.kind = "question"
    /\ result' = NoResult
    /\ UNCHANGED << questionStates, courseStats, config, now, nextLogId, lastCall, everHidden,
                    streak, logs, interactions >>

StudyNext ==
    \/ StudyLoadNext
    \/ \E a \in Options : StudySubmit(a)
    \/ StudyFeedback
    \/ NoQuestionsCountdown

StudySpec == StudyInit /\ [][StudyNext]_vars

\* the Interaction records getQuestionHistory returns for question i
QuestionHistory(i) == SelectSeq(interactions, LAMBDA r : r.question_id = i)

\* C37: for every question total_interactions equals the number of Interaction records in
\* its history, in every state reachable through the study flow, also when two answers are
\* submitted for the same displayed question before the screen changes.
C37_HistoryMatches ==
    \A i \in DOMAIN questionStates :
        questionStates[i].total_interactions = Len(QuestionHistory(i))

\* two answers were recorded for a question whose state counts one
C37_DoubleSubmit ==
    /\ result.kind = "question"
    /\ Len(QuestionHistory(result.state.question_id)) = 2
    /\ questionStates[result.state.question_id].total_interactions = 1

\* an answer was recorded and counted, and the feedback screen is shown
C37_SingleSubmit ==
    /\ lastCall.op = "processAnswer"
    /\ result = NoResult
    /\ Len(QuestionHistory(lastCall.state.question_id)) = 1
    /\ questionStates[lastCall.state.question_id].total_interactions = 1

----------------------------------------------------------------------------
(* The never-answered condition of a stored question, checked under Spec *)

NeverAnswered(s) ==
    s.last_shown = Null /\ s.snooze_until = Null /\ s.total_interactions = 0

SnoozeDurationsNonNegative ==
    /\ config.snooze_incorrect_minutes >= 0
    /\ config.snooze_test_correct_minutes >= 0
    /\ config.snooze_learned_correct_hours >= 0
    /\ config.snooze_master_correct_days >= 0

\* C38: in every state reachable through createCourse, refill, persisted answers,
\* hideQuestion and resetCourse a question has last_shown = null exactly when snooze_until =
\* null exactly when total_interactions = 0; every question in Latent is in that
\* never-answered condition; and every answered question has snooze_until >= last_shown when
\* the snooze durations of the configuration are non-negative.
C38_AnsweredOrNever ==
    \A i \in DOMAIN questionStates :
        LET s == questionStates[i]
        IN  /\ (s.last_shown = Null) <=> (s.snooze_until = Null)
            /\ (s.snooze_until = Null) <=> (s.total_interactions = 0)
            /\ s.pool = "latent" => NeverAnswered(s)
            /\ (s.total_interactions # 0 /\ SnoozeDurationsNonNegative) =>
                  s.snooze_until >= s.last_shown

\* an answer was persisted for one question while another waits in Latent, never answered
C38_Witness ==
    /\ lastCall.op = "processAnswer"
    /\ LET s == questionStates[lastCall.state.question_id]
       IN  /\ s.total_interactions = 1
           /\ s.last_shown = lastCall.at
           /\ s.snooze_until > s.last_shown
    /\ \E j \in DOMAIN questionStates :
          questionStates[j].pool = "latent" /\ NeverAnswered(questionStates[j])

\* an answer under a snooze of zero minutes: snooze_until = last_shown
C38_ZeroSnooze ==
    /\ lastCall.op = "processAnswer"
    /\ LET s == questionStates[lastCall.state.question_id]
       IN  s.total_interactions > 0 /\ s.snooze_until = s.last_shown

\* resetCourse put an answered course back in the never-answered condition
C38_AfterReset ==
    /\ lastCall.op = "resetCourse"
    /\ lastCall.answered
    /\ \E i \in DOMAIN questionStates : TRUE
    /\ \A i \in DOMAIN questionStates :
          questionStates[i].pool = "latent" /\ NeverAnswered(questionStates[i])

----------------------------------------------------------------------------
(* Several courses in one InMemoryDatabase.  Here questionStates is the Map of all the
   states in insertion order, each state carrying its course_id, courseStats is the Map from
   course ids to stats, and the interaction and log records carry their course_id.  Course n
   has the id "test-n"; a question is kept together with its state. *)

CourseIds == 1..NumCourses

\* the records of the course: the filter x.course_id === courseId
OfCourse(seq, courseId) == SelectSeq(seq, LAMBDA r : r.course_id = courseId)

\* faulty variant of the filter: nothing is kept
OfOtherCoursesNone(seq, courseId) == << >>

\* the records of the other courses: the filter x.course_id !== courseId
OfOtherCourses(seq, courseId) == SelectSeq(seq, LAMBDA r : r.course_id # courseId)

\* the Map of states after each state of qs is set under its key "courseId:questionId"
StoredFor(all, courseId, qs) ==
    [ k \in DOMAIN all |->
        IF all[k].course_id = courseId /\ all[k].question_id \in DOMAIN qs
        THEN qs[all[k].question_id]
        ELSE all[k] ]

\* the events pushed on the log with the course id of the call
PushedFor(courseId, events) ==
    logs \o [ i \in DOMAIN events |->
                Merge(LogEntry(nextLogId + i - 1, events[i]), [ course_id |-> courseId ]) ]

\* the states of the questions of a course at the start: a course with its first question
\* in Test and the others in Latent, and a course studied two hours ago
MultiStates(courseId, qid) ==
    << Merge(InitialQuestionState(qid),
             [ course_id |-> courseId, pool |-> IF qid = 1 THEN "test" ELSE "latent" ]),
       IF qid = 1
       THEN Merge(Studied(qid, "learned", 0, FALSE), [ course_id |-> courseId ])
       ELSE Merge(InitialQuestionState(qid), [ course_id |-> courseId, pool |-> "test" ]) >>

\* the configurations: the default one and one with a Test pool of one question
MultiConfigs == { DEFAULT_CONFIG, Merge(DEFAULT_CONFIG, [ test_pool_target_size |-> 1 ]) }

CourseStatsOf(qs, courseId) ==
    [ id |-> courseId,
      question_count |-> Len(qs),
      latent_count |-> Len(getAllQuestions(qs, "latent")),
      test_count |-> Len(getAllQuestions(qs, "test")),
      learned_count |-> Len(getAllQuestions(qs, "learned")),
      master_count |-> Len(getAllQuestions(qs, "master")) ]

MultiCall(op, courseId) == [ op |-> op, course_id |-> courseId ]

\* NumCourses courses of NumQ questions each, created one after the other
MultiInit ==
    \E pick \in [ CourseIds -> DOMAIN MultiStates(1, 1) ], cfg \in MultiConfigs :
      LET all == [ k \in 1..(NumCourses * NumQ) |->
                     LET c == ((k - 1) \div NumQ) + 1
                         q == ((k - 1) % NumQ) + 1
                     IN  MultiStates(c, q)[pick[c]] ]
      IN
        /\ questionStates = all
        /\ courseStats = [ c \in CourseIds |-> CourseStatsOf(OfCourse(all, c), c) ]
        /\ logs = [ c \in CourseIds |->
                      Merge(LogEntry(c, CourseEvent("course_created")), [ course_id |-> c ]) ]
        /\ nextLogId = NumCourses + 1
        /\ config = cfg
        /\ now = 120 * 60000
        /\ result = NoResult
        /\ lastCall = MultiCall("other", 0)
        /\ everHidden = {}
        /\ streak = NoStreak
        /\ interactions = << >>

\* findNextQuestion(courseId)
MultiFindNextQuestion(courseId) ==
    LET qs == OfCourse(questionStates, courseId)
        r == refillTestPoolFromLatent(qs, courseStats[courseId], config)
    IN  /\ Logs(r.promoted)
        /\ questionStates' = StoredFor(questionStates, courseId, r.qs)
        /\ courseStats' = [ courseStats EXCEPT ![courseId] = r.stats ]
        /\ logs' = PushedFor(courseId, RefillEvents(qs, r.qs))
        /\ result' \in findNextQuestionReturns(r.qs, config, now)
        /\ lastCall' = MultiCall("findNextQuestion", courseId)
        /\ UNCHANGED << config, now, everHidden, streak, interactions >>

\* hideQuestion(courseId, questionId) from the FeedbackScreen, on a question not hidden yet
MultiHideQuestion(courseId, questionId) ==
    LET qs == OfCourse(questionStates, courseId)
    IN  /\ questionId \in DOMAIN qs
        /\ ~ qs[questionId].hidden
        /\ LET s == qs[questionId]
               stats == courseStats[courseId]
               qs1 == [ qs EXCEPT ![questionId].hidden = TRUE ]
               st1 == IF stats # NoStats
                      THEN [ SetPoolCount(stats, s.pool, PoolCount(stats, s.pool) - 1)
                               EXCEPT !.question_count = @ - 1 ]
                      ELSE stats
               r == IF s.pool = "test" THEN refillTestPoolFromLatent(qs1, st1, config)
                    ELSE [ qs |-> qs1, stats |-> st1, promoted |-> 0 ]
           IN  /\ Logs(1 + r.promoted)
               /\ logs' = PushedFor(courseId,
                              << QuestionEvent("question_hidden", questionId) >>
                                 \o RefillEvents(qs1, r.qs))
               /\ questionStates' = StoredFor(questionStates, courseId, r.qs)
               /\ courseStats' = [ courseStats EXCEPT ![courseId] = r.stats ]
        /\ result' = NoResult
        /\ lastCall' = MultiCall("hideQuestion", courseId)
        /\ UNCHANGED << config, now, everHidden, streak, interactions >>

\* processAnswer(courseId, result, answer) on the result held for the course: the state
\* update, recordInteraction, logEvent and the refill
MultiProcessAnswer(answer) ==
    /\ result.kind = "question"
    /\ Len(interactions) < MaxAnswers
    /\ LET courseId == result.state.course_id
           qs == OfCourse(questionStates, courseId)
           ar == processAnswerPure(result, answer, config, now)
           w == updateQuestionStateWithPoolTransition(qs, courseStats[courseId],
                    result.state.question_id, ar.stateUpdates, ar.oldPool, ar.newPool)
           r == IF ar.needsTestPoolRefill
                THEN refillTestPoolFromLatent(w.qs, w.stats, config)
                ELSE [ qs |-> w.qs, stats |-> w.stats, promoted |-> 0 ]
       IN  /\ Logs(Len(ar.events) + 1 + r.promoted)
           /\ logs' = PushedFor(courseId,
                          ar.events
                            \o << QuestionEvent("user_interaction", result.state.question_id) >>
                            \o RefillEvents(w.qs, r.qs))
           /\ interactions' = Append(interactions,
                  Merge(Interaction(result.state.question_id, answer, ar.correct,
                                    result.strategy, ar.oldPool),
                        [ course_id |-> courseId ]))
           /\ questionStates' = StoredFor(questionStates, courseId, r.qs)
           /\ courseStats' = [ courseStats EXCEPT ![courseId] = r.stats ]
           /\ lastCall' = MultiCall("processAnswer", courseId)
    /\ result' = NoResult
    /\ UNCHANGED << config, now, everHidden, streak >>

\* resetCourse(courseId)
MultiResetCourse(courseId) ==
    /\ courseStats[courseId] # NoStats
    /\ questionStates' = [ k \in DOMAIN questionStates |->
                             IF questionStates[k].course_id = courseId
                             THEN ResetState(questionStates[k])
                             ELSE questionStates[k] ]
    /\ interactions' = OfOtherCourses(interactions, courseId)
    /\ Logs(1)
    /\ logs' = OfOtherCourses(logs, courseId)
                 \o << Merge(LogEntry(nextLogId, CourseEvent("course_reset")),
                             [ course_id |-> courseId ]) >>
    /\ courseStats' =
          LET stats == courseStats[courseId]
          IN  [ courseStats EXCEPT
                  ![courseId] = [ stats EXCEPT !.latent_count = stats.question_count,
                                               !.test_count = 0, !.learned_count = 0,
                                               !.master_count = 0 ] ]
    /\ result' = NoResult
    /\ lastCall' = MultiCall("resetCourse", courseId)
    /\ UNCHANGED << config, now, everHidden, streak >>

\* deleteCourse(courseId)
MultiDeleteCourse(courseId) ==
    /\ courseStats[courseId] # NoStats
    /\ courseStats' = [ courseStats EXCEPT ![courseId] = NoStats ]
    /\ questionStates' = OfOtherCourses(questionStates, courseId)
    /\ interactions' = OfOtherCourses(interactions, courseId)
    /\ logs' = OfOtherCourses(logs, courseId)
    /\ result' = NoResult
    /\ lastCall' = MultiCall("deleteCourse", courseId)
    /\ UNCHANGED << config, now, nextLogId, everHidden, streak >>

MultiNext ==
    \/ \E c \in CourseIds : MultiFindNextQuestion(c)
    \/ \E c \in CourseIds, q \in 1..NumQ : MultiHideQuestion(c, q)
    \/ \E a \in Options : MultiProcessAnswer(a)
    \/ \E c \in CourseIds : MultiResetCourse(c)
    \/ \E c \in CourseIds : MultiDeleteCourse(c)

MultiSpec == MultiInit /\ [][MultiNext]_vars

\* what the database holds of a course: its states, stats, interactions and event log
CourseData(all, stats, recorded, logged, courseId) ==
    << OfCourse(all, courseId), stats[courseId], OfCourse(recorded, courseId),
       OfCourse(logged, courseId) >>

\* C39: an operation addressed to one course (findNextQuestion with its refill, the state
\* update, recordInteraction and logEvent of an answer, hideQuestion, resetCourse,
\* deleteCourse) leaves the question states, stats, interactions and event log of every
\* other course unchanged.
C39_OtherCoursesUnchanged ==
    [][ \A c \in CourseIds :
          c # lastCall'.course_id =>
            CourseData(questionStates', courseStats', interactions', logs', c)
              = CourseData(questionStates, courseStats, interactions, logs, c) ]_vars

\* a course was reset while another course keeps its answers and its log
C39_Witness ==
    /\ lastCall.op = "resetCourse"
    /\ OfCourse(interactions, lastCall.course_id) = << >>
    /\ \E c \in CourseIds :
          /\ c # lastCall.course_id
          /\ OfCourse(interactions, c) # << >>
          /\ Len(OfCourse(logs, c)) >= 2
          /\ \E k \in DOMAIN questionStates :
                questionStates[k].course_id = c /\ questionStates[k].total_interactions > 0

\* a course was deleted while another course keeps its states, its answers and its log
C39_AfterDelete ==
    /\ lastCall.op = "deleteCourse"
    /\ OfCourse(questionStates, lastCall.course_id) = << >>
    /\ \E c \in CourseIds :
          /\ c # lastCall.course_id
          /\ Len(OfCourse(questionStates, c)) = NumQ
          /\ OfCourse(interactions, c) # << >>
          /\ courseStats[c] # NoStats

----------------------------------------------------------------------------
(* A long session of a learner who answers every question correctly.  The session is
   followed until each question has been answered MaxInteractions times; the clock moves to
   snooze expiries. *)

\* the configurations of the long session, all with positive pool weights
LiveConfigs ==
    { DEFAULT_CONFIG,
      Merge(DEFAULT_CONFIG, [ test_pool_target_size |-> 1 ]),
      Merge(DEFAULT_CONFIG, [ test_pool_target_size |-> 1, promotion_consecutive_correct |-> 1,
                              strategy_oldest_pct |-> 100, strategy_demoted_pct |-> 0 ]) }

\* a new course of NumQ questions, of which at most one is hidden
LiveInit ==
    \E h \in 0..NumQ, cfg \in LiveConfigs :
        /\ questionStates = [ i \in 1..NumQ |->
                                [ InitialQuestionState(i) EXCEPT !.hidden = (i = h) ] ]
        /\ courseStats = [ id |-> "course",
                           question_count |-> IF h = 0 THEN NumQ ELSE NumQ - 1,
                           latent_count |-> IF h = 0 THEN NumQ ELSE NumQ - 1,
                           test_count |-> 0, learned_count |-> 0, master_count |-> 0 ]
        /\ config = cfg
        /\ now = 60000
        /\ result = NoResult
        /\ nextLogId = 1
        /\ lastCall = Other
        /\ everHidden = IF h = 0 THEN {} ELSE { h }
        /\ streak = NoStreak
        /\ logs = << >>
        /\ interactions = << >>

\* findNextQuestion called by loadNext returns res: the refill, then one of the values the
\* draws can give
LiveFind(res) ==
    /\ result.kind # "question"
    /\ \E r \in { refillTestPoolFromLatent(questionStates, courseStats, config) } :
          /\ res \in findNextQuestionReturns(r.qs, config, now)
          /\ result' = res
          /\ questionStates' = r.qs
          /\ courseStats' = r.stats
          /\ nextLogId' = nextLogId + r.promoted
          /\ logs' = Pushed(RefillEvents(questionStates, r.qs))
    /\ lastCall' = Call("findNextQuestion")
    /\ UNCHANGED << config, now, everHidden, streak, interactions >>

\* findNextQuestion returns question questionId, not yet answered MaxInteractions times
LiveReturn(questionId) ==
    \E pick \in { "oldest", "recovery", "random" } :
        \E s \in { refillTestPoolFromLatent(questionStates, courseStats,
                                            config).qs[questionId] } :
            /\ s.total_interactions < MaxInteractions
            /\ LiveFind([ kind |-> "question", question |-> OriginalQuestion(questionId),
                          state |-> s, strategy |-> pick ])

\* findNextQuestion returns null: the NoQuestionsScreen is shown
LiveReturnNull == LiveFind(NullResult)

\* the learner submits the correct option of the question shown: processAnswer with its
\* state update, records and refill
LiveAnswerCorrect ==
    /\ result.kind = "question"
    /\ \E ar \in { processAnswerPure(result, result.question.correct_option, config, now) } :
       \E w \in { updateQuestionStateWithPoolTransition(questionStates, courseStats,
                       result.state.question_id, ar.stateUpdates, ar.oldPool, ar.newPool) } :
       \E r \in { IF ar.needsTestPoolRefill
                   THEN refillTestPoolFromLatent(w.qs, w.stats, config)
                   ELSE [ qs |-> w.qs, stats |-> w.stats, promoted |-> 0 ] } :
          /\ nextLogId' = nextLogId + Len(ar.events) + 1 + r.promoted
          /\ logs' = Pushed(ar.events
                              \o << QuestionEvent("user_interaction", result.state.question_id) >>
                              \o RefillEvents(w.qs, r.qs))
          /\ interactions' = Append(interactions,
                 Interaction(result.state.question_id, result.question.correct_option,
                             ar.correct, result.strategy, ar.oldPool))
          /\ questionStates' = r.qs
          /\ courseStats' = r.stats
          /\ lastCall' = [ op |-> "processAnswer", state |-> result.state, answer |-> ar,
                           at |-> now ]
    /\ result' = NoResult
    /\ UNCHANGED << config, now, everHidden, streak >>

\* Date.now() reaches the snooze expiry of a question
LiveTick ==
    /\ \E i \in DOMAIN questionStates :
          /\ ~ questionStates[i].hidden
          /\ questionStates[i].snooze_until # Null
          /\ questionStates[i].snooze_until > now
          /\ now' = questionStates[i].snooze_until
    /\ UNCHANGED << questionStates, courseStats, config, result, nextLogId, lastCall,
                    everHidden, streak, logs, interactions >>

LiveNext ==
    \/ \E q \in 1..NumQ : LiveReturn(q)
    \/ LiveReturnNull
    \/ LiveAnswerCorrect
    \/ LiveTick

\* the learner keeps studying and answering, the clock keeps advancing, and a question that
\* the draws can return again and again is returned
LiveSpec ==
    /\ LiveInit
    /\ [][LiveNext]_vars
    /\ WF_vars(LiveAnswerCorrect)
    /\ WF_vars(LiveTick)
    /\ \A q \in 1..NumQ : SF_vars(LiveReturn(q))

\* C40: under a fixed configuration with promotion_consecutive_correct >= 1 and
\* test_pool_target_size >= 1, when the learner keeps calling findNextQuestion and answers
\* every returned question correctly, the clock keeps advancing past every snooze expiry and
\* the draws are fair, every non-hidden question eventually leaves Latent and eventually
\* reaches Master, after which it never changes pool again.  No question is hidden or
\* un-hidden in the session, and a question that is in Master from some point on has left
\* Latent.
C40_NonStarving ==
    <>[](\A q \in DOMAIN questionStates :
            ~ questionStates[q].hidden => questionStates[q].pool = "master")

\* every non-hidden question is in Master, one of them answered there again, after the Test
\* pool held one question at a time
C40_Witness ==
    /\ config.test_pool_target_size = 1
    /\ \A q \in DOMAIN questionStates :
          ~ questionStates[q].hidden => questionStates[q].pool = "master"
    /\ \E q \in DOMAIN questionStates :
          /\ questionStates[q].pool = "master"
          /\ questionStates[q].consecutive_correct > 0
    /\ Len(NotHidden(questionStates)) = NumQ

\* a hidden question stays in Latent while the other questions are in Master
C40_HiddenStays ==
    /\ \E q \in DOMAIN questionStates :
          questionStates[q].hidden /\ questionStates[q].pool = "latent"
    /\ \E q \in DOMAIN questionStates :
          ~ questionStates[q].hidden /\ questionStates[q].pool = "master"

====
